---- MODULE Spec2Model ----
(***************************************************************************)
(* A model of code-loop: the supervisor of the opencode-loop driver        *)
(* (main/script-runner.ts) and the driver's retry policy                   *)
(* (opencode-loop.sh).                                                     *)
(*                                                                         *)
(* One run is followed from startRun (or from the startup load of the      *)
(* registry) through the events of its child process, its log poller, the  *)
(* stop request, the escalation timer and the shutdown cleanup.  The       *)
(* driver is an OS process of its own: it writes and exits between any two *)
(* steps of the supervisor, also between the two system calls of one poll. *)
(*                                                                         *)
(* Text is modelled line by line.  A stream is a sequence of atoms, an     *)
(* atom being the text of one line or the newline that ends it; a chunk    *)
(* boundary inside the text of a line is the boundary between the text     *)
(* and its newline (the handlers keep whatever follows the last newline,   *)
(* of any length, as the remainder).                                       *)
(***************************************************************************)
EXTENDS Integers, Sequences, FiniteSets, TLC

VARIABLES
    run,            \* the RunState object held by activeRuns / the closures of startRun
    persisted,      \* the copy of the run held by persistedRuns
    active,         \* TRUE iff activeRuns has an entry for the run
    process,        \* ActiveRun.process: "child" or "null"
    logPoller,      \* ActiveRun.logPoller is set
    logLineBuffer,  \* ActiveRun.logLineBuffer
    stdoutBuffer,   \* startRun's stdoutBuffer
    stderrBuffer,   \* startRun's stderrBuffer
    pollPc,         \* position inside poll(): "idle", or "check" between the read and the liveness test
    outPipe,        \* bytes written to the child's stdout and not yet delivered
    errPipe,        \* bytes written to the child's stderr and not yet delivered
    file,           \* the content of the driver's log file
    alive,          \* the process ids that are alive
    childCode,      \* the exit code of the spawned child
    childClosed,    \* the child's 'close' event has been delivered
    midLine,        \* the stream on which the driver has written a line's text and not yet its newline
    emitted,        \* history: the lines the driver emitted, in order, with their stream
    killTimer,      \* the pid stopRun's pending escalation timer holds, or NoPid
    signals,        \* history: the signals sent
    shutdown,       \* cleanupAllRuns has run
    stopCalled,     \* history: stopRun has returned true
    registry,       \* the content of the registry file read at startup (LoadSpec)
    replay,         \* two runs fed the same lines (ReplaySpec)
    retry,          \* the driver's retry_with_backoff (RetrySpec)
    pipeline,       \* the driver's run_pipeline (PipelineSpec)
    merge,          \* the pull request of a run and the operations on it (MergeSpec)
    scheduler,      \* persistRunState and its flush timer (PersistSpec)
    journal,        \* a run whose log list is near its cap (JournalSpec)
    chunks,         \* a byte stream delivered in chunks (ChunkSpec)
    branch,         \* the driver's generate_branch_name (BranchSpec)
    launch,         \* the driver's main in background mode (LaunchSpec)
    history,        \* the objects a pull request operation holds (HistorySpec)
    handling,       \* one entry handled on a given phase map (HandleSpec)
    refresh,        \* one refreshRunPrStatus on a given run (RefreshSpec)
    commitMsg,      \* the commit message the driver makes of the agent's answer (MessageSpec)
    pollers,        \* the log pollers of one background run (PollerSpec)
    stopping        \* the calls of stopRun on one run (StopSpec)

vars == << run, persisted, active, process, logPoller, logLineBuffer, stdoutBuffer,
           stderrBuffer, pollPc, outPipe, errPipe, file, alive, childCode, childClosed,
           midLine, emitted, killTimer, signals, shutdown, stopCalled, registry, replay, retry,
           pipeline, merge, scheduler, journal, chunks, branch, launch, history, handling, refresh, commitMsg, pollers, stopping >>

supervisorVars == << run, persisted, active, process, logPoller, logLineBuffer, stdoutBuffer,
                     stderrBuffer, pollPc, outPipe, errPipe, file, alive, childCode,
                     childClosed, midLine, emitted, killTimer, signals, shutdown, stopCalled >>

----------------------------------------------------------------------------
(* Bounds *)

\* the number of lines the driver emits in one behaviour
MaxLines == 2

----------------------------------------------------------------------------
(* shared/types.ts *)

PIPELINE_PHASES ==
    << "CLONE", "SETUP", "PLAN", "IMPLEMENT", "REVIEW", "FIX", "COMMIT", "PUSH", "PR" >>

PhaseSet == { PIPELINE_PHASES[i] : i \in 1..Len(PIPELINE_PHASES) }

PhaseStatus == { "pending", "active", "completed", "skipped", "failed" }

RunStatus == { "running", "completed", "failed", "stopped" }

TerminalStatus == { "completed", "failed", "stopped" }

MAX_LOGS_PER_RUN == 10000

----------------------------------------------------------------------------
(* Text: messages, lines, atoms *)

MsgStarting      == "Starting"
MsgCompleted     == "Completed in 5s"
MsgCompletedPlan == "Completed in 7s. Plan saved to /tmp/plan.md"
MsgSkippedPlan   == "Skipped (user-provided plan)"
MsgSkippedFix    == "Skipped fix phase because review response is LGTM"
MsgTotal         == "Total duration: 42s"
MsgPrCreated     == "PR created: https://github.com/o/r/pull/1"
MsgText          == "some output"
MsgBootstrap     == "Running in background. Log: /w/run.log. PID: 2"

NoUrl  == "null"
PrUrl  == "https://github.com/o/r/pull/1"
NoPath == "null"
LogPath == "/w/run.log"
NoText == "null"
PlanContent == "the plan"

\* String.prototype.toUpperCase on the phase tags that occur
toUpperCase(s) ==
    CASE s = "fix"  -> "FIX"
      [] s = "plan" -> "PLAN"
      [] s = "done" -> "DONE"
      [] OTHER      -> s

\* message.includes('Skipped')
IncludesSkipped(m) == m \in { MsgSkippedPlan, MsgSkippedFix }

\* message.match(/^Completed in \d+s/)
MatchesCompleted(m) == m \in { MsgCompleted, MsgCompletedPlan }

\* message.includes('Total duration:')
IncludesTotalDuration(m) == m = MsgTotal

\* message.match(PR_URL_REGEX)
PR_URL_REGEX(m) == IF m = MsgPrCreated THEN PrUrl ELSE NoUrl

\* message.match(PLAN_FILE_REGEX)
PLAN_FILE_REGEX(m) == m \in { MsgCompletedPlan, "Plan saved to /tmp/plan.md" }

\* line.match(BG_BOOTSTRAP_REGEX)
BG_BOOTSTRAP_REGEX(l) == l.msg = MsgBootstrap

\* A raw line: ts and tag are "" when the line is not of the form [ts] [tag] msg.
StructuredLine(tag, msg) == [ ts |-> "12:00:00", tag |-> tag, msg |-> msg ]
PlainLine(msg)           == [ ts |-> "", tag |-> "", msg |-> msg ]
BlankLine                == PlainLine("")
GarbledLine              == PlainLine("garbled")

\* line.trim() is empty
IsBlank(l) == l.tag = "" /\ l.msg = ""

TextAtom(l) == [ nl |-> FALSE, line |-> l ]
NL          == [ nl |-> TRUE, line |-> BlankLine ]

\* The text of one segment between newlines.
SegmentLine(seg) ==
    IF seg = << >> THEN BlankLine
    ELSE IF Len(seg) = 1 THEN seg[1].line
    ELSE GarbledLine

\* String.prototype.split('\n'): the segments between the newlines, the
\* last being what follows the last newline.
RECURSIVE SplitFrom(_, _, _)
SplitFrom(s, cur, acc) ==
    IF s = << >> THEN Append(acc, cur)
    ELSE IF Head(s).nl THEN SplitFrom(Tail(s), << >>, Append(acc, cur))
    ELSE SplitFrom(Tail(s), Append(cur, Head(s)), acc)

split(s) == SplitFrom(s, << >>, << >>)

\* lines.pop() and what is left of lines
Front(s)   == SubSeq(s, 1, Len(s) - 1)
Last(s)    == s[Len(s)]

----------------------------------------------------------------------------
(* Log Stream Parser *)

\* the readings of the clock (second granularity) of two replays of a stream
Timestamps == { "T1", "T2" }

\* the reading of the clock while one run is supervised
Clock == { "T1" }

NoEntry == [ timestamp |-> "", phase |-> "", message |-> "", raw |-> BlankLine ]

\* a parseLine whose unstructured entries carry the clock in their message
parseLineStamped(raw, now) ==
    IF raw.tag # ""
    THEN [ timestamp |-> raw.ts, phase |-> raw.tag, message |-> raw.msg, raw |-> raw ]
    ELSE IF ~IsBlank(raw)
    THEN [ timestamp |-> now, phase |-> "OUTPUT", message |-> now, raw |-> raw ]
    ELSE NoEntry

\* parseLine: a structured entry, an OUTPUT entry stamped with the current
\* time, or null
parseLine(raw, now) ==
    IF raw.tag # ""
    THEN [ timestamp |-> raw.ts, phase |-> raw.tag, message |-> raw.msg, raw |-> raw ]
    ELSE IF ~IsBlank(raw)
    THEN [ timestamp |-> now, phase |-> "OUTPUT", message |-> raw.msg, raw |-> raw ]
    ELSE NoEntry

\* state.phases[p] = v
SetPhase(phases, p, v) ==
    [ q \in (DOMAIN phases) \cup {p} |-> IF q = p THEN v ELSE phases[q] ]

\* a loop that turns the skipped phases as well as the active one
TurnSettled(phases, to) ==
    [ q \in DOMAIN phases |->
        IF q \in PhaseSet /\ phases[q] \in { "active", "skipped" } THEN to ELSE phases[q] ]

\* for (const p of PIPELINE_PHASES) if (state.phases[p] === from) state.phases[p] = to
TurnActive(phases, to) ==
    [ q \in DOMAIN phases |->
        IF q \in PhaseSet /\ phases[q] = "active" THEN to ELSE phases[q] ]

createInitialPhases(skipPlan, skipPr) ==
    [ p \in PhaseSet |->
        IF p = "PLAN" /\ skipPlan THEN "skipped"
        ELSE IF p \in { "PR", "PUSH" } /\ skipPr THEN "skipped"
        ELSE "pending" ]

\* an updatePhaseStatus that leaves the phase that was active as it is
updatePhaseStatusKeeping(state, phase) ==
    LET phaseUpper == toUpperCase(phase)
    IN  IF phaseUpper \notin PhaseSet THEN state
        ELSE [ state EXCEPT
                 !.phases = IF state.phases[phaseUpper] # "skipped"
                            THEN SetPhase(state.phases, phaseUpper, "active")
                            ELSE state.phases,
                 !.currentPhase = phaseUpper ]

updatePhaseStatus(state, phase) ==
    LET phaseUpper == toUpperCase(phase)
        demoted == [ q \in DOMAIN state.phases |->
                       IF q \in PhaseSet /\ state.phases[q] = "active" /\ q # phaseUpper
                       THEN "completed" ELSE state.phases[q] ]
    IN  IF phaseUpper \notin PhaseSet THEN state
        ELSE [ state EXCEPT
                 !.phases = IF demoted[phaseUpper] # "skipped"
                            THEN SetPhase(demoted, phaseUpper, "active")
                            ELSE demoted,
                 !.currentPhase = phaseUpper ]

markPhaseCompleted(state, phase) ==
    LET phaseUpper == toUpperCase(phase)
    IN  IF phaseUpper \in PhaseSet /\ state.phases[phaseUpper] = "active"
        THEN [ state EXCEPT !.phases = SetPhase(state.phases, phaseUpper, "completed") ]
        ELSE state

\* state.logs.push(entry) and the splice that keeps the newest MAX_LOGS_PER_RUN
PushLog(logs, entry) ==
    LET pushed == Append(logs, entry)
    IN  IF Len(pushed) > MAX_LOGS_PER_RUN
        THEN SubSeq(pushed, Len(pushed) - MAX_LOGS_PER_RUN + 1, Len(pushed))
        ELSE pushed

\* handleLogEntry, up to its broadcasts and persistRunState (see Persist).
\* planFile: the plan file named by the entry exists and is not empty.
handleLogEntry(state, entry, planFile) ==
    LET phase == toUpperCase(entry.phase)
        s1 == IF phase = "PLAN" /\ PLAN_FILE_REGEX(entry.message) /\ planFile
              THEN [ state EXCEPT !.planText = PlanContent ]
              ELSE state
        s2 == [ s1 EXCEPT !.logs = PushLog(s1.logs, entry) ]
    IN  IF phase = "DONE"
        THEN LET s3 == [ s2 EXCEPT !.phases = TurnActive(s2.phases, "completed") ]
             IN  IF PR_URL_REGEX(entry.message) # NoUrl
                 THEN [ s3 EXCEPT !.prUrl = PR_URL_REGEX(entry.message),
                                  !.prMergeStatus = "checking",
                                  !.prMergeMessage = "Pull request created. Checking merge status..." ]
                 ELSE s3
        ELSE IF phase = "FIX"
        THEN IF IncludesSkipped(entry.message)
             THEN [ s2 EXCEPT !.phases = SetPhase(s2.phases, "FIX", "skipped") ]
             ELSE updatePhaseStatus(s2, phase)
        ELSE IF phase = "PLAN" /\ IncludesSkipped(entry.message)
        THEN [ s2 EXCEPT !.phases = SetPhase(s2.phases, "PLAN", "skipped") ]
        ELSE IF phase \in PhaseSet
        THEN IF MatchesCompleted(entry.message)
             THEN markPhaseCompleted(s2, phase)
             ELSE updatePhaseStatus(s2, phase)
        ELSE s2

----------------------------------------------------------------------------
(* Processes *)

NoPid     == 0
ChildPid  == 1   \* the process spawn() returns: the driver (foreground), the launcher (background)
DriverPid == 2   \* the detached driver the launcher announces in its bootstrap line

\* exit codes of a process that ends by itself; the null code of a process
\* ended by a signal is -1
ExitCodes == { 0, 1 }
KilledCode == -1

isProcessAlive(pid) == pid # NoPid /\ pid \in alive

\* process.kill(-pid, sig) reaches a process group: spawn's detached option
\* is set for foreground runs only, so only the foreground child leads a group.
GroupExists(pid) == pid = ChildPid /\ run.runMode = "foreground" /\ ChildPid \in alive

Signal(pid, group, sig) == [ to |-> pid, group |-> group, sig |-> sig ]

----------------------------------------------------------------------------
(* Run Registry *)

\* the RunState startRun builds
NewRunState(skipPlan, skipPr, background, autoMerge) ==
    [ status         |-> "running",
      currentPhase   |-> "INIT",
      phases         |-> createInitialPhases(skipPlan, skipPr),
      logs           |-> << >>,
      prUrl          |-> NoUrl,
      prMergeStatus  |-> "none",
      prMergeMessage |-> "null",
      finishedAt     |-> FALSE,
      pid            |-> ChildPid,
      planText       |-> IF skipPlan THEN PlanContent ELSE NoText,
      runMode        |-> IF background THEN "background" ELSE "foreground",
      logFilePath    |-> NoPath,
      logFileOffset  |-> 0,
      autoMerge      |-> autoMerge ]

\* for (const line of lines): skip blank lines, parse, handle
RECURSIVE HandleLines(_, _, _, _)
HandleLines(state, lines, now, planFile) ==
    IF lines = << >> THEN state
    ELSE LET raw   == SegmentLine(Head(lines))
             entry == parseLine(raw, now)
         IN  IF IsBlank(raw) \/ entry = NoEntry
             THEN HandleLines(state, Tail(lines), now, planFile)
             ELSE HandleLines(handleLogEntry(state, entry, planFile), Tail(lines), now, planFile)

\* the stdout handler's loop: a bootstrap line sets the log file and the
\* process id and asks for the poller, any other line is parsed and handled
RECURSIVE HandleStdoutLines(_, _, _, _)
HandleStdoutLines(ctx, lines, now, planFile) ==
    IF lines = << >> THEN ctx
    ELSE LET raw   == SegmentLine(Head(lines))
             entry == parseLine(raw, now)
         IN  IF IsBlank(raw)
             THEN HandleStdoutLines(ctx, Tail(lines), now, planFile)
             ELSE IF BG_BOOTSTRAP_REGEX(raw)
             THEN HandleStdoutLines(
                      [ state |-> [ ctx.state EXCEPT !.logFilePath = LogPath, !.pid = DriverPid ],
                        poll  |-> TRUE ],
                      Tail(lines), now, planFile)
             ELSE IF entry = NoEntry
             THEN HandleStdoutLines(ctx, Tail(lines), now, planFile)
             ELSE HandleStdoutLines(
                      [ ctx EXCEPT !.state = handleLogEntry(ctx.state, entry, planFile) ],
                      Tail(lines), now, planFile)

\* if (buffer.trim()) { entry = parseLine(buffer); if (entry) handleLogEntry(...) }
FlushBuffer(state, buffer, now, planFile) ==
    LET raw   == SegmentLine(buffer)
        entry == parseLine(raw, now)
    IN  IF IsBlank(raw) \/ entry = NoEntry THEN state
        ELSE handleLogEntry(state, entry, planFile)

inferCompletedFromLogs(state) ==
    \E i \in 1..Len(state.logs) :
        /\ toUpperCase(state.logs[i].phase) = "DONE"
        /\ IncludesTotalDuration(state.logs[i].message)

\* maybeAutoMergeRun up to its first await: refreshRunPrStatus marks the
\* pull request as being checked before it queries the hosting platform
maybeAutoMergeRun(state) ==
    IF ~state.autoMerge \/ state.prUrl = NoUrl \/ state.status # "completed"
    THEN state
    ELSE [ state EXCEPT !.prMergeStatus = "checking",
                        !.prMergeMessage = "Checking pull request status..." ]

\* finalizeBackgroundRun without the loop over PIPELINE_PHASES
finalizeBackgroundRunOpen(state) ==
    IF state.status # "running" THEN state
    ELSE LET done == inferCompletedFromLogs(state)
             s1 == [ state EXCEPT
                       !.finishedAt = TRUE,
                       !.status = IF done THEN "completed" ELSE "failed" ]
         IN  IF s1.status = "completed" /\ s1.prUrl # NoUrl
             THEN maybeAutoMergeRun(s1)
             ELSE s1

finalizeBackgroundRun(state) ==
    IF state.status # "running" THEN state
    ELSE LET done == inferCompletedFromLogs(state)
             s1 == [ state EXCEPT
                       !.finishedAt = TRUE,
                       !.status = IF done THEN "completed" ELSE "failed",
                       !.phases = TurnActive(state.phases, IF done THEN "completed" ELSE "failed") ]
         IN  IF s1.status = "completed" /\ s1.prUrl # NoUrl
             THEN maybeAutoMergeRun(s1)
             ELSE s1

----------------------------------------------------------------------------
(* The variables of the other specifications, which a specification leaves alone *)

NoRegistry == [ loaded |-> TRUE, shared |-> FALSE, adopted |-> FALSE ]
NoReplay   == [ on |-> FALSE ]
NoRetry    == [ on |-> FALSE ]
NoPipeline == [ on |-> FALSE ]
NoMerge    == [ on |-> FALSE ]
NoScheduler == [ on |-> FALSE ]
NoJournal   == [ on |-> FALSE ]
NoChunks    == [ on |-> FALSE ]
NoBranch    == [ on |-> FALSE ]
NoLaunch    == [ on |-> FALSE ]
NoHistory   == [ on |-> FALSE ]
NoHandling  == [ on |-> FALSE ]
NoRefresh   == [ on |-> FALSE ]
NoMessage   == [ on |-> FALSE ]
NoPollers   == [ on |-> FALSE ]
NoStopping  == [ on |-> FALSE ]

RestOff ==
    chunks = NoChunks /\ branch = NoBranch /\ launch = NoLaunch /\ history = NoHistory
        /\ handling = NoHandling /\ refresh = NoRefresh /\ commitMsg = NoMessage
        /\ pollers = NoPollers /\ stopping = NoStopping

\* the specifications of the driver's pipeline, of the pull request and of
\* the persistence are not running
OthersOff ==
    /\ pipeline = NoPipeline
    /\ merge = NoMerge
    /\ scheduler = NoScheduler
    /\ journal = NoJournal
    /\ RestOff

\* persistedRuns after a handler that leaves the run as s. persistRunState
\* stores a copy; loadPersistedRuns stores the very object it puts in
\* activeRuns, which the map then holds until the first copy replaces it.
Stored(persist, s) ==
    IF persist THEN s ELSE IF registry.shared THEN s ELSE persisted

Copied(persist) ==
    IF persist /\ registry.shared THEN [ registry EXCEPT !.shared = FALSE ] ELSE registry

----------------------------------------------------------------------------
(* Process Supervisor: startRun *)

\* the options startRun is called with
RunOptions ==
    { [ skipPlan |-> FALSE, skipPr |-> FALSE, autoMerge |-> TRUE ],
      [ skipPlan |-> TRUE,  skipPr |-> TRUE,  autoMerge |-> FALSE ] }

\* The state startRun leaves: the child is spawned, the run is in
\* activeRuns and in persistedRuns, and nothing has been read yet.
Init ==
    \E o \in RunOptions, background \in BOOLEAN :
        /\ run = NewRunState(o.skipPlan, o.skipPr, background, o.autoMerge)
        /\ persisted = run
        /\ active = TRUE
        /\ process = "child"
        /\ logPoller = FALSE
        /\ logLineBuffer = << >>
        /\ stdoutBuffer = << >>
        /\ stderrBuffer = << >>
        /\ pollPc = "idle"
        /\ outPipe = << >>
        /\ errPipe = << >>
        /\ file = << >>
        /\ alive = { ChildPid }
        /\ childCode = 0
        /\ childClosed = FALSE
        /\ midLine = "none"
        /\ emitted = << >>
        /\ killTimer = NoPid
        /\ signals = { }
        /\ shutdown = FALSE
        /\ stopCalled = FALSE
        /\ registry = NoRegistry
        /\ replay = NoReplay
        /\ retry = NoRetry
        /\ OthersOff

\* The model follows the processes until the application shuts down.
\* The supervisor runs one handler at a time; a poll that has read the file
\* and not yet tested the process is the only handler in progress.
SupervisorIdle == ~shutdown /\ pollPc = "idle"

----------------------------------------------------------------------------
(* The driver and the launcher, as the supervisor sees them *)

\* the lines the driver writes
DriverLines ==
    { StructuredLine("PRECHECK", MsgText),
      StructuredLine("CLONE", MsgStarting),
      StructuredLine("PR", MsgStarting),
      StructuredLine("FIX", MsgSkippedFix),
      StructuredLine("DONE", MsgPrCreated),
      StructuredLine("DONE", MsgTotal),
      PlainLine(MsgText) }

\* the process that writes to a stream: the spawned child writes to its
\* pipes, the driver of a background run writes to its log file
Writer(stream) ==
    IF stream = "file" THEN DriverPid ELSE ChildPid

Streams ==
    IF run.runMode = "background" THEN { "file" }
    ELSE IF run.runMode = "foreground" THEN { "out", "err" }
    ELSE { }

\* the driver has not reached setup_logging, which sends its standard error
\* where its standard output goes
BeforeLogging ==
    \A i \in 1..Len(emitted) : emitted[i].line.tag \in { "", "PRECHECK" }

\* the driver writes the text of a line: log() writes to the standard
\* output, the output of the commands it runs goes to either pipe
DriverWriteText(stream, line) ==
    /\ ~shutdown
    /\ midLine = "none"
    /\ Len(emitted) < MaxLines
    /\ stream \in Streams
    /\ line.tag = "PRECHECK" => BeforeLogging
    /\ stream = "err" => line.tag = "" /\ BeforeLogging
    /\ Writer(stream) \in alive
    /\ outPipe' = IF stream = "out" THEN Append(outPipe, TextAtom(line)) ELSE outPipe
    /\ errPipe' = IF stream = "err" THEN Append(errPipe, TextAtom(line)) ELSE errPipe
    /\ file' = IF stream = "file" THEN Append(file, TextAtom(line)) ELSE file
    /\ midLine' = stream
    /\ emitted' = Append(emitted, [ stream |-> stream, line |-> line ])
    /\ UNCHANGED << run, persisted, active, process, logPoller, logLineBuffer, stdoutBuffer,
                    stderrBuffer, pollPc, alive, childCode, childClosed, killTimer, signals,
                    shutdown, stopCalled, registry, replay, retry, pipeline, merge, scheduler, journal, chunks, branch, launch, history, handling, refresh, commitMsg, pollers, stopping >>

\* the driver ends the line it is writing
DriverWriteNewline ==
    /\ ~shutdown
    /\ midLine # "none"
    /\ outPipe' = IF midLine = "out" THEN Append(outPipe, NL) ELSE outPipe
    /\ errPipe' = IF midLine = "err" THEN Append(errPipe, NL) ELSE errPipe
    /\ file' = IF midLine = "file" THEN Append(file, NL) ELSE file
    /\ midLine' = "none"
    /\ UNCHANGED << run, persisted, active, process, logPoller, logLineBuffer, stdoutBuffer,
                    stderrBuffer, pollPc, alive, childCode, childClosed, emitted, killTimer,
                    signals, shutdown, stopCalled, registry, replay, retry, pipeline, merge, scheduler, journal, chunks, branch, launch, history, handling, refresh, commitMsg, pollers, stopping >>

\* the launcher of a background run starts the detached driver, prints the
\* bootstrap line and exits 0
LauncherBootstrap ==
    /\ ~shutdown
    /\ run.runMode = "background"
    /\ process = "child"
    /\ ChildPid \in alive
    /\ midLine # "out"
    /\ outPipe' = outPipe \o << TextAtom(PlainLine(MsgBootstrap)), NL >>
    /\ alive' = (alive \ { ChildPid }) \cup { DriverPid }
    /\ childCode' = 0
    /\ UNCHANGED << run, persisted, active, process, logPoller, logLineBuffer, stdoutBuffer,
                    stderrBuffer, pollPc, errPipe, file, childClosed, midLine, emitted,
                    killTimer, signals, shutdown, stopCalled, registry, replay, retry, pipeline, merge, scheduler, journal, chunks, branch, launch, history, handling, refresh, commitMsg, pollers, stopping >>

\* a process ends: by itself, or by a signal it does not ignore
ProcessExit(pid, code) ==
    /\ ~shutdown
    /\ pid \in alive
    /\ alive' = alive \ { pid }
    /\ childCode' = IF pid = ChildPid THEN code ELSE childCode
    /\ midLine' = IF midLine # "none" /\ Writer(midLine) = pid THEN "none" ELSE midLine
    /\ UNCHANGED << run, persisted, active, process, logPoller, logLineBuffer, stdoutBuffer,
                    stderrBuffer, pollPc, outPipe, errPipe, file, childClosed, emitted,
                    killTimer, signals, shutdown, stopCalled, registry, replay, retry, pipeline, merge, scheduler, journal, chunks, branch, launch, history, handling, refresh, commitMsg, pollers, stopping >>

----------------------------------------------------------------------------
(* Process Supervisor: the handlers startRun registers on the child *)

\* some line of lines reaches handleLogEntry or is a bootstrap line, so that
\* persistRunState is called
AnyEntry(lines) == \E i \in 1..Len(lines) : ~IsBlank(SegmentLine(lines[i]))

\* child.stdout.on('data'): the chunk is everything written and not yet
\* delivered.  startBackgroundLogPolling sets the poller and calls poll(),
\* whose two system calls are the steps PollRead and PollCheck.
StdoutData ==
    /\ SupervisorIdle
    /\ process = "child"
    /\ ~childClosed
    /\ outPipe # << >>
    /\ \E now \in Clock, planFile \in BOOLEAN :
        LET segs  == split(stdoutBuffer \o outPipe)
            lines == Front(segs)
            ctx   == HandleStdoutLines([ state |-> run, poll |-> FALSE ], lines, now, planFile)
            start == ctx.poll /\ active /\ ~logPoller /\ ctx.state.logFilePath # NoPath
        IN  /\ stdoutBuffer' = Last(segs)
            /\ run' = ctx.state
            /\ persisted' = IF AnyEntry(lines) THEN ctx.state ELSE persisted
            /\ logPoller' = (logPoller \/ start)
            /\ pollPc' = IF start THEN "read" ELSE pollPc
    /\ outPipe' = << >>
    /\ UNCHANGED << active, process, logLineBuffer, stderrBuffer, errPipe, file, alive,
                    childCode, childClosed, midLine, emitted, killTimer, signals,
                    shutdown, stopCalled, registry, replay, retry, pipeline, merge, scheduler, journal, chunks, branch, launch, history, handling, refresh, commitMsg, pollers, stopping >>

\* child.stderr.on('data')
StderrData ==
    /\ SupervisorIdle
    /\ process = "child"
    /\ ~childClosed
    /\ errPipe # << >>
    /\ \E now \in Clock, planFile \in BOOLEAN :
        LET segs  == split(stderrBuffer \o errPipe)
            lines == Front(segs)
            s     == HandleLines(run, lines, now, planFile)
        IN  /\ stderrBuffer' = Last(segs)
            /\ run' = s
            /\ persisted' = IF AnyEntry(lines) THEN s ELSE persisted
    /\ errPipe' = << >>
    /\ UNCHANGED << active, process, logPoller, logLineBuffer, stdoutBuffer, pollPc, outPipe,
                    file, alive, childCode, childClosed, midLine, emitted, killTimer, signals,
                    shutdown, stopCalled, registry, replay, retry, pipeline, merge, scheduler, journal, chunks, branch, launch, history, handling, refresh, commitMsg, pollers, stopping >>

\* the close handler's branch for a background run
CloseBackground(state, code) ==
    LET s1 == IF code = 0 /\ state.status = "running" /\ state.logFilePath = NoPath
              THEN [ state EXCEPT
                       !.status = "failed",
                       !.finishedAt = TRUE,
                       !.prMergeStatus = IF state.prUrl # NoUrl THEN "checking" ELSE "none",
                       !.prMergeMessage = "Background run exited before streaming started." ]
              ELSE state
    IN  IF code # 0 /\ s1.status = "running"
        THEN [ s1 EXCEPT !.status = "failed", !.finishedAt = TRUE ]
        ELSE s1

\* the close handler's branch for a foreground run
CloseForeground(state, code) ==
    LET s1 == [ state EXCEPT !.finishedAt = TRUE ]
        s2 == IF s1.status = "stopped" THEN s1
              ELSE IF code = 0
              THEN [ s1 EXCEPT !.status = "completed",
                               !.phases = TurnActive(s1.phases, "completed") ]
              ELSE [ s1 EXCEPT !.status = "failed",
                               !.phases = TurnActive(s1.phases, "failed") ]
    IN  IF s2.status = "completed" /\ s2.prUrl # NoUrl
        THEN maybeAutoMergeRun(s2)
        ELSE s2

\* child.on('close'): Node delivers it after the child has exited and both
\* pipes have been read to their end
ChildClose ==
    /\ SupervisorIdle
    /\ process = "child"
    /\ ~childClosed
    /\ ChildPid \notin alive
    /\ outPipe = << >>
    /\ errPipe = << >>
    /\ \E now \in Clock, planFile \in BOOLEAN :
        LET s1 == FlushBuffer(run, stdoutBuffer, now, planFile)
            s2 == FlushBuffer(s1, stderrBuffer, now, planFile)
            s3 == IF s2.runMode = "background"
                  THEN CloseBackground(s2, childCode)
                  ELSE CloseForeground(s2, childCode)
        IN  /\ run' = s3
            /\ persisted' = IF s2.runMode = "foreground" \/ s3 # run THEN s3 ELSE persisted
    /\ childClosed' = TRUE
    /\ UNCHANGED << active, process, logPoller, logLineBuffer, stdoutBuffer, stderrBuffer,
                    pollPc, outPipe, errPipe, file, alive, childCode, midLine, emitted,
                    killTimer, signals, shutdown, stopCalled, registry, replay, retry, pipeline, merge, scheduler, journal, chunks, branch, launch, history, handling, refresh, commitMsg, pollers, stopping >>

\* child.on('error'): the handler's assignments. After a spawn that succeeded
\* Node emits 'error' on the handle from inside ChildProcess.kill, when the
\* operating system refuses the signal for a child that still exists.
OnChildError(state) == [ state EXCEPT !.status = "failed", !.finishedAt = TRUE ]

----------------------------------------------------------------------------
(* Process Supervisor: stopRun, its escalation timer, cleanupAllRuns *)

\* the run stopRun and the timer look up: activeRuns first, then persistedRuns
TargetState == IF active THEN run ELSE persisted

\* stopRun and cleanupAllRuns call kill on the child handle; the call reaches
\* the operating system while the child has not been reaped
HandleKillReaches == active /\ process = "child" /\ ChildPid \in alive

\* the signal a kill on the child handle delivers, none when it is refused
HandleKill(sig, refused) ==
    IF HandleKillReaches /\ ~refused THEN { Signal(ChildPid, FALSE, sig) } ELSE { }

\* process.kill(pid, sig) on a bare process id
BareKill(pid, sig) == IF isProcessAlive(pid) THEN { Signal(pid, FALSE, sig) } ELSE { }

\* the signals stopRun sends for the process id pid
StopSignals(pid, refused) ==
    IF pid = NoPid THEN { }
    ELSE IF GroupExists(pid)
    THEN \* process.kill(-pid, 'SIGTERM'), then the child handle or the bare pid
         { Signal(pid, TRUE, "SIGTERM") }
           \cup (IF active /\ process = "child"
                 THEN HandleKill("SIGTERM", refused) ELSE BareKill(pid, "SIGTERM"))
    ELSE \* process.kill(-pid, 'SIGTERM') throws: the catch block
         IF active /\ process = "child"
         THEN HandleKill("SIGKILL", refused) ELSE BareKill(pid, "SIGKILL")

\* the timer is set only after process.kill(-pid, 'SIGTERM') has succeeded;
\* it keeps the pid of the time of the stop
StopTimer(pid) == IF pid # NoPid /\ GroupExists(pid) THEN pid ELSE NoPid

\* stopRun(runId) for a run that is found; refused: the operating system
\* refuses the signal of the child handle, which makes kill emit 'error'
StopRun ==
    /\ SupervisorIdle
    /\ active \/ persisted.status = "running"
    /\ TargetState.status = "running"
    /\ \E refused \in BOOLEAN :
        /\ refused => HandleKillReaches /\ TargetState.pid # NoPid
        /\ LET s == [ TargetState EXCEPT !.status = "stopped", !.finishedAt = TRUE ]
               t == IF refused THEN OnChildError(s) ELSE s
           IN  /\ run' = t
               /\ persisted' = t
               /\ registry' = Copied(TRUE)
               /\ signals' = signals \cup StopSignals(s.pid, refused)
               /\ killTimer' = IF StopTimer(s.pid) # NoPid THEN StopTimer(s.pid)
                               ELSE killTimer
    /\ logPoller' = FALSE
    /\ stopCalled' = TRUE
    /\ UNCHANGED << active, process, logLineBuffer, stdoutBuffer, stderrBuffer, pollPc,
                    outPipe, errPipe, file, alive, childCode, childClosed, midLine, emitted,
                    shutdown, replay, retry, pipeline, merge, scheduler, journal, chunks, branch, launch, history, handling, refresh, commitMsg, pollers, stopping >>

\* the signals the timer sends: the group, or the bare pid when that throws
EscalationSignals(pid) ==
    IF TargetState.status # "stopped" THEN { }
    ELSE IF GroupExists(pid) THEN { Signal(pid, TRUE, "SIGKILL") }
    ELSE IF isProcessAlive(pid) THEN { Signal(pid, FALSE, "SIGKILL") }
    ELSE { }

\* the callback of stopRun's setTimeout(…, 3000)
KillTimerFire ==
    /\ SupervisorIdle
    /\ killTimer # NoPid
    /\ signals' = signals \cup EscalationSignals(killTimer)
    /\ killTimer' = NoPid
    /\ UNCHANGED << run, persisted, active, process, logPoller, logLineBuffer, stdoutBuffer,
                    stderrBuffer, pollPc, outPipe, errPipe, file, alive, childCode,
                    childClosed, midLine, emitted, shutdown, stopCalled, registry, replay, retry, pipeline, merge, scheduler, journal, chunks, branch, launch, history, handling, refresh, commitMsg, pollers, stopping >>

\* a process that was sent SIGKILL ends
Killed(pid) ==
    /\ \E sg \in signals : sg.to = pid /\ sg.sig = "SIGKILL"
    /\ ProcessExit(pid, KilledCode)

\* the signals cleanupAllRuns sends
CleanupSignals(refused) ==
    (IF process = "child"
     THEN HandleKill("SIGTERM", refused) \cup HandleKill("SIGKILL", refused) ELSE { })
    \cup (IF run.pid # NoPid /\ GroupExists(run.pid)
          THEN { Signal(run.pid, TRUE, "SIGTERM") } ELSE { })
    \cup BareKill(run.pid, "SIGKILL")

cleanupAllRuns ==
    /\ SupervisorIdle
    /\ registry.loaded
    /\ shutdown' = TRUE
    /\ IF active
       THEN \E refused \in BOOLEAN :
            /\ refused => HandleKillReaches
            /\ LET s == IF refused THEN OnChildError(run) ELSE run
               IN  /\ run' = IF s.status = "running"
                             THEN [ s EXCEPT !.status = "stopped", !.finishedAt = TRUE ]
                             ELSE s
                   /\ persisted' = Stored(refused \/ s.status = "running", run')
                   /\ registry' = Copied(refused \/ s.status = "running")
            /\ logPoller' = FALSE
            /\ signals' = signals \cup CleanupSignals(refused)
       ELSE UNCHANGED << logPoller, signals, run, persisted, registry >>
    /\ active' = FALSE
    /\ UNCHANGED << process, logLineBuffer, stdoutBuffer, stderrBuffer, pollPc, outPipe,
                    errPipe, file, alive, childCode, childClosed, midLine, emitted,
                    killTimer, stopCalled, replay, retry, pipeline, merge, scheduler, journal, chunks, branch, launch, history, handling, refresh, commitMsg, pollers, stopping >>

----------------------------------------------------------------------------
(* Log tailing of a background run *)

\* readNewLogChunk: what the file holds beyond the offset, and the new offset
readNewLogChunk(content, offset) ==
    IF Len(content) <= offset
    THEN [ chunk |-> << >>, nextOffset |-> Len(content) ]
    ELSE [ chunk |-> SubSeq(content, offset + 1, Len(content)), nextOffset |-> Len(content) ]

\* poll(), from readNewLogChunk to the end of the loop over the lines read
PollLines(state, buffer, now, planFile) ==
    LET r     == readNewLogChunk(file, state.logFileOffset)
        segs  == split(buffer \o r.chunk)
        lines == Front(segs)
        s0    == [ state EXCEPT !.logFileOffset = r.nextOffset ]
    IN  IF r.chunk # << >>
        THEN [ state   |-> HandleLines(s0, lines, now, planFile),
               buffer  |-> Last(segs),
               persist |-> AnyEntry(lines) ]
        ELSE [ state |-> s0, buffer |-> buffer, persist |-> FALSE ]

\* poll(), what it does when isProcessAlive(state.pid) is false
PollFinish(state, buffer, now, planFile) ==
    [ state  |-> finalizeBackgroundRun(FlushBuffer(state, buffer, now, planFile)),
      buffer |-> IF ~IsBlank(SegmentLine(buffer)) THEN << >> ELSE buffer ]

\* poll(), from its start to the end of the loop over the lines read: a tick
\* of the interval, or the call startBackgroundLogPolling makes
PollRead ==
    /\ ~shutdown
    /\ active
    /\ pollPc = "read" \/ (pollPc = "idle" /\ logPoller)
    /\ IF run.status # "running"
       THEN /\ logPoller' = FALSE
            /\ pollPc' = "idle"
            /\ UNCHANGED << run, persisted, logLineBuffer, registry >>
       ELSE \E now \in Clock, planFile \in BOOLEAN :
            LET r == PollLines(run, logLineBuffer, now, planFile)
            IN  /\ run' = r.state
                /\ logLineBuffer' = r.buffer
                /\ persisted' = Stored(r.persist, r.state)
                /\ registry' = Copied(r.persist)
                /\ pollPc' = "check"
                /\ UNCHANGED logPoller
    /\ UNCHANGED << active, process, stdoutBuffer, stderrBuffer, outPipe, errPipe, file, alive,
                    childCode, childClosed, midLine, emitted, killTimer, signals,
                    shutdown, stopCalled, replay, retry, pipeline, merge, scheduler, journal, chunks, branch, launch, history, handling, refresh, commitMsg, pollers, stopping >>

\* poll(), from isProcessAlive to its end
PollCheck ==
    /\ ~shutdown
    /\ pollPc = "check"
    /\ pollPc' = "idle"
    /\ IF ~isProcessAlive(run.pid)
       THEN \E now \in Clock, planFile \in BOOLEAN :
            LET r == PollFinish(run, logLineBuffer, now, planFile)
            IN  /\ run' = r.state
                /\ persisted' = Stored(r.state # run, r.state)
                /\ registry' = Copied(r.state # run)
                /\ logLineBuffer' = r.buffer
                /\ logPoller' = FALSE
       ELSE UNCHANGED << run, persisted, logLineBuffer, logPoller, registry >>
    /\ UNCHANGED << active, process, stdoutBuffer, stderrBuffer, outPipe, errPipe, file, alive,
                    childCode, childClosed, midLine, emitted, killTimer, signals,
                    shutdown, stopCalled, replay, retry, pipeline, merge, scheduler, journal, chunks, branch, launch, history, handling, refresh, commitMsg, pollers, stopping >>

----------------------------------------------------------------------------
Next ==
    \/ \E stream \in { "out", "err", "file" }, line \in DriverLines : DriverWriteText(stream, line)
    \/ DriverWriteNewline
    \/ LauncherBootstrap
    \/ \E pid \in { ChildPid, DriverPid }, code \in ExitCodes : ProcessExit(pid, code)
    \/ \E pid \in { ChildPid, DriverPid } : Killed(pid)
    \/ StdoutData
    \/ StderrData
    \/ ChildClose
    \/ StopRun
    \/ KillTimerFire
    \/ cleanupAllRuns
    \/ PollRead
    \/ PollCheck

Spec == Init /\ [][Next]_vars

----------------------------------------------------------------------------
(* Run Registry: the startup load *)

\* before the load the maps are empty
NoRun == [ status |-> "none", runMode |-> "none" ]

\* what a run had of its driver when it was last written to the registry
\* file: nothing (the spawn failed), the spawned child, or the driver and
\* the log file of the bootstrap line
Bootstraps ==
    { [ pid |-> NoPid, path |-> NoPath ],
      [ pid |-> ChildPid, path |-> NoPath ],
      [ pid |-> DriverPid, path |-> LogPath ] }

\* the runs persistRunsNow can have written
StoredRuns ==
    { [ r EXCEPT !.status = st, !.finishedAt = (st # "running"),
                 !.pid = w.pid, !.logFilePath = w.path ] :
        r \in { NewRunState(o.skipPlan, o.skipPr, bg, o.autoMerge) :
                  o \in RunOptions, bg \in BOOLEAN }
              \cup { handleLogEntry(NewRunState(FALSE, FALSE, bg, FALSE),
                                    parseLine(StructuredLine("CLONE", MsgStarting), "T1"),
                                    FALSE) : bg \in BOOLEAN },
        st \in RunStatus,
        w \in Bootstraps }

\* the log files the load can find, none of it read yet
StoredFiles ==
    { << >>,
      << TextAtom(StructuredLine("PR", MsgStarting)), NL >>,
      << TextAtom(StructuredLine("DONE", MsgTotal)), NL >> }

\* the entry the load appends to a run it marks as stopped
MsgRestart == "Run marked as stopped after app restart"

RestartEntry(now) ==
    [ timestamp |-> now, phase |-> "INIT", message |-> MsgRestart,
      raw |-> PlainLine("[INIT] Run marked as stopped after app restart") ]

\* loadPersistedRuns for a run stored as running that it does not resume
MarkStopped(r, now) ==
    [ r EXCEPT !.status = "stopped", !.finishedAt = TRUE,
               !.logs = Append(r.logs, RestartEntry(now)) ]

\* the application starts with a registry file of one run
LoadInit ==
    \E r \in StoredRuns, a \in SUBSET { ChildPid, DriverPid }, f \in StoredFiles :
        /\ r.logFilePath # NoPath => r.runMode = "background"
        /\ r.logFilePath = NoPath => f = << >>
        /\ registry = [ loaded |-> FALSE, shared |-> FALSE, run |-> r, adopted |-> FALSE ]
        /\ run = NoRun
        /\ persisted = NoRun
        /\ active = FALSE
        /\ process = "null"
        /\ logPoller = FALSE
        /\ logLineBuffer = << >>
        /\ stdoutBuffer = << >>
        /\ stderrBuffer = << >>
        /\ pollPc = "idle"
        /\ outPipe = << >>
        /\ errPipe = << >>
        /\ file = f
        /\ alive = a
        /\ childCode = 0
        /\ childClosed = TRUE
        /\ midLine = "none"
        /\ emitted = << >>
        /\ killTimer = NoPid
        /\ signals = { }
        /\ shutdown = FALSE
        /\ stopCalled = FALSE
        /\ replay = NoReplay
        /\ retry = NoRetry
        /\ OthersOff

\* loadPersistedRuns for the run of the file, up to the liveness test of the
\* poll() that startBackgroundLogPolling calls, or to its end when no poll
\* is made
LoadPersistedRuns ==
    /\ ~registry.loaded
    /\ pollPc = "idle"
    /\ LET r       == registry.run
           adopted == /\ r.status = "running"
                      /\ r.runMode = "background"
                      /\ isProcessAlive(r.pid)
       IN  IF adopted
           THEN /\ active' = TRUE
                /\ IF r.logFilePath # NoPath
                   THEN \E now \in Clock, planFile \in BOOLEAN :
                        LET p == PollLines(r, << >>, now, planFile)
                        IN  /\ run' = p.state
                            /\ persisted' = p.state
                            /\ logLineBuffer' = p.buffer
                            /\ logPoller' = TRUE
                            /\ pollPc' = "load"
                            /\ registry' = [ registry EXCEPT !.adopted = TRUE ]
                   ELSE /\ run' = r
                        /\ persisted' = r
                        /\ registry' = [ registry EXCEPT !.adopted = TRUE,
                                                         !.loaded = TRUE, !.shared = TRUE ]
                        /\ UNCHANGED << logLineBuffer, logPoller, pollPc >>
           ELSE /\ \E now \in Clock :
                    LET s == IF r.status = "running" THEN MarkStopped(r, now) ELSE r
                    IN  /\ run' = s
                        /\ persisted' = s
                /\ registry' = [ registry EXCEPT !.loaded = TRUE ]
                /\ UNCHANGED << active, logLineBuffer, logPoller, pollPc >>
    /\ UNCHANGED << process, stdoutBuffer, stderrBuffer, outPipe, errPipe, file, alive,
                    childCode, childClosed, midLine, emitted, killTimer, signals, shutdown,
                    stopCalled, replay, retry, pipeline, merge, scheduler, journal, chunks, branch, launch, history, handling, refresh, commitMsg, pollers, stopping >>

\* the rest of loadPersistedRuns when it made a poll: the poll's liveness
\* test and finalisation, then persistedRuns.set(loadedRun.id, loadedRun)
LoadPollCheck ==
    /\ pollPc = "load"
    /\ pollPc' = "idle"
    /\ registry' = [ registry EXCEPT !.loaded = TRUE, !.shared = TRUE ]
    /\ IF ~isProcessAlive(run.pid)
       THEN \E now \in Clock, planFile \in BOOLEAN :
            LET r == PollFinish(run, logLineBuffer, now, planFile)
            IN  /\ run' = r.state
                /\ persisted' = r.state
                /\ logLineBuffer' = r.buffer
                /\ logPoller' = FALSE
       ELSE UNCHANGED << run, persisted, logLineBuffer, logPoller >>
    /\ UNCHANGED << active, process, stdoutBuffer, stderrBuffer, outPipe, errPipe, file, alive,
                    childCode, childClosed, midLine, emitted, killTimer, signals,
                    shutdown, stopCalled, replay, retry, pipeline, merge, scheduler, journal, chunks, branch, launch, history, handling, refresh, commitMsg, pollers, stopping >>

\* the driver of a run of the file is an orphan of the previous session:
\* it writes to its log file and exits whenever it does
LoadNext ==
    \/ LoadPersistedRuns
    \/ LoadPollCheck
    \/ \E line \in DriverLines : DriverWriteText("file", line)
    \/ DriverWriteNewline
    \/ \E pid \in { ChildPid, DriverPid }, code \in ExitCodes : ProcessExit(pid, code)
    \/ \E pid \in { ChildPid, DriverPid } : Killed(pid)
    \/ PollRead
    \/ PollCheck
    \/ StopRun
    \/ cleanupAllRuns

LoadSpec == LoadInit /\ [][LoadNext]_vars

----------------------------------------------------------------------------
(* Log Stream Parser: one captured stream replayed into two runs *)

\* the number of lines of the captured stream
MaxReplay == 3

\* the lines of the captured stream
ReplayLines ==
    { StructuredLine("CLONE", MsgStarting),
      StructuredLine("CLONE", MsgCompleted),
      StructuredLine("plan", MsgCompletedPlan),
      StructuredLine("PLAN", MsgSkippedPlan),
      StructuredLine("fix", MsgSkippedFix),
      StructuredLine("PR", MsgStarting),
      StructuredLine("DONE", MsgPrCreated),
      StructuredLine("OUTPUT", MsgText),
      PlainLine(MsgText),
      BlankLine }

\* no run is supervised
NoSupervisor ==
    /\ run = NoRun
    /\ persisted = NoRun
    /\ active = FALSE
    /\ process = "null"
    /\ logPoller = FALSE
    /\ logLineBuffer = << >>
    /\ stdoutBuffer = << >>
    /\ stderrBuffer = << >>
    /\ pollPc = "idle"
    /\ outPipe = << >>
    /\ errPipe = << >>
    /\ file = << >>
    /\ alive = { }
    /\ childCode = 0
    /\ childClosed = TRUE
    /\ midLine = "none"
    /\ emitted = << >>
    /\ killTimer = NoPid
    /\ signals = { }
    /\ shutdown = FALSE
    /\ stopCalled = FALSE
    /\ registry = NoRegistry

\* two runs with the same initial state, nothing replayed yet
ReplayInit ==
    /\ NoSupervisor
    /\ retry = NoRetry
    /\ OthersOff
    /\ \E o \in RunOptions :
         LET s == NewRunState(o.skipPlan, o.skipPr, FALSE, o.autoMerge)
         IN  replay = [ on |-> TRUE, first |-> s, second |-> s, fed |-> 0 ]

\* const entry = parseLine(line); if (entry) handleLogEntry(runId, entry, state)
ParseAndHandle(state, raw, now, planFile) ==
    LET entry == parseLine(raw, now)
    IN  IF entry = NoEntry THEN state ELSE handleLogEntry(state, entry, planFile)

\* the next line of the stream goes through parseLine and handleLogEntry in
\* both replays; each replay reads its own clock and its own file system
ReplayLine ==
    /\ replay.on
    /\ replay.fed < MaxReplay
    /\ \E raw \in ReplayLines, now1 \in Timestamps, now2 \in Timestamps,
          planFile1 \in BOOLEAN, planFile2 \in BOOLEAN :
         replay' = [ replay EXCEPT
                       !.first  = ParseAndHandle(replay.first, raw, now1, planFile1),
                       !.second = ParseAndHandle(replay.second, raw, now2, planFile2),
                       !.fed    = replay.fed + 1 ]
    /\ UNCHANGED << supervisorVars, registry, retry, pipeline, merge, scheduler, journal, chunks, branch, launch, history, handling, refresh, commitMsg, pollers, stopping >>

ReplayNext == ReplayLine

ReplaySpec == ReplayInit /\ [][ReplayNext]_vars

----------------------------------------------------------------------------
(* Pipeline Driver: load_config and retry_with_backoff (opencode-loop.sh) *)

\* the largest retry count the config file or the environment names
MaxCount == 4

\* the longest RETRY_DELAYS list of the config file
MaxDelays == 2

\* the value of a shell variable: not set, a number, or other text
Unset     == [ kind |-> "unset", n |-> 0 ]
Number(n) == [ kind |-> "number", n |-> n ]
Words     == [ kind |-> "words", n |-> 0 ]

\* MAX_RETRIES as the config file can set it
ConfigCounts == { Unset, Words } \cup { Number(n) : n \in 0..MaxCount }

\* OPENCODE_LOOP_MAX_RETRIES: not set (the driver run by hand), or
\* String(config.maxRetries) as startRun sets it
OverrideCounts == { Unset } \cup { Number(n) : n \in 0..MaxCount }

\* RETRY_DELAYS as the config file can set it: not declared, or a list
ConfigDelays ==
    { [ declared |-> FALSE, list |-> << >> ] }
    \cup { [ declared |-> TRUE, list |-> l ] :
             l \in UNION { [ 1..n -> { 10, 30 } ] : n \in 1..MaxDelays } }

\* the wrapped command: what an invocation prints and returns, by attempt
Commands == { "succeeds", "denied", "reset", "verbose", "flaky" }

\* what a command prints: its first line, and whether more follows than a
\* pipe holds
Output(says, long) == [ says |-> says, long |-> long ]

Invoke(cmd, attempt) ==
    CASE cmd = "succeeds" -> [ status |-> 0, output |-> Output("ok", FALSE) ]
      [] cmd = "denied"   -> [ status |-> 126, output |-> Output("permission denied", FALSE) ]
      [] cmd = "reset"    -> [ status |-> 128, output |-> Output("read ECONNRESET", FALSE) ]
      [] cmd = "verbose"  -> [ status |-> 128, output |-> Output("read ECONNRESET", TRUE) ]
      [] cmd = "flaky"    -> IF attempt = 1
                             THEN [ status |-> 128, output |-> Output("read ECONNRESET", FALSE) ]
                             ELSE [ status |-> 0, output |-> Output("ok", FALSE) ]

\* the text has a match of the pattern set of is_network_error
MatchesNetworkPattern(says) == says = "read ECONNRESET"

\* echo "$output" | grep -Eiq '...' under set -o pipefail: grep -q exits at
\* the first match; an echo that is still writing then fails, and its
\* failure is the status of the pipeline
is_network_error(output) ==
    /\ MatchesNetworkPattern(output.says)
    /\ ~output.long

\* [[ "$MAX_RETRIES" =~ ^[0-9]+$ ]]
IsNumber(v) == v.kind = "number"

\* load_config: MAX_RETRIES after the default, the three checks and the
\* environment override, in that order
load_config(fileCount, override) ==
    LET defaulted == IF fileCount = Unset THEN Number(3) ELSE fileCount
        numeric   == IF ~IsNumber(defaulted) THEN 3 ELSE defaulted.n
        capped    == IF numeric > 3 THEN 3 ELSE numeric
        raised    == IF capped < 1 THEN 1 ELSE capped
    IN  IF override # Unset THEN override.n ELSE raised

\* load_config: RETRY_DELAYS
load_delays(fileDelays) ==
    IF ~fileDelays.declared THEN << 10, 30, 60 >> ELSE fileDelays.list

\* "${RETRY_DELAYS[$delay_idx]:-${RETRY_DELAYS[-1]}}" with delay_idx = attempt - 1
DelayOf(delays, attempt) ==
    IF attempt <= Len(delays) THEN delays[attempt] ELSE delays[Len(delays)]

\* the driver starts: a config file, an environment, a command to wrap
RetryInit ==
    /\ NoSupervisor
    /\ replay = NoReplay
    /\ OthersOff
    /\ \E fileCount \in ConfigCounts, override \in OverrideCounts,
          fileDelays \in ConfigDelays, cmd \in Commands :
         retry = [ on |-> TRUE, pc |-> "config",
                   fileCount |-> fileCount, override |-> override,
                   fileDelays |-> fileDelays, cmd |-> cmd,
                   MAX_RETRIES |-> 3, RETRY_DELAYS |-> << 10, 30, 60 >>,
                   attempt |-> 1, calls |-> 0, sleeps |-> << >>, status |-> 0 ]

LoadConfig ==
    /\ retry.on
    /\ retry.pc = "config"
    /\ retry' = [ retry EXCEPT
                    !.pc = "loop",
                    !.MAX_RETRIES = load_config(retry.fileCount, retry.override),
                    !.RETRY_DELAYS = load_delays(retry.fileDelays) ]
    /\ UNCHANGED << supervisorVars, registry, replay, pipeline, merge, scheduler, journal, chunks, branch, launch, history, handling, refresh, commitMsg, pollers, stopping >>

\* one pass of the while loop of retry_with_backoff, to its return or to
\* its sleep
RetryAttempt ==
    /\ retry.on
    /\ retry.pc = "loop"
    /\ retry.attempt <= retry.MAX_RETRIES
    /\ LET r == Invoke(retry.cmd, retry.attempt)
           called == [ retry EXCEPT !.calls = retry.calls + 1, !.status = r.status ]
       IN  retry' = IF r.status = 0
                    THEN [ called EXCEPT !.pc = "returned" ]
                    ELSE IF ~is_network_error(r.output)
                    THEN [ called EXCEPT !.pc = "returned" ]
                    ELSE IF retry.attempt >= retry.MAX_RETRIES
                    THEN [ called EXCEPT !.pc = "returned" ]
                    ELSE [ called EXCEPT !.pc = "sleep" ]
    /\ UNCHANGED << supervisorVars, registry, replay, pipeline, merge, scheduler, journal, chunks, branch, launch, history, handling, refresh, commitMsg, pollers, stopping >>

\* sleep "$delay"; attempt=$((attempt + 1))
RetrySleep ==
    /\ retry.on
    /\ retry.pc = "sleep"
    /\ retry' = [ retry EXCEPT
                    !.pc = "loop",
                    !.sleeps = Append(retry.sleeps, DelayOf(retry.RETRY_DELAYS, retry.attempt)),
                    !.attempt = retry.attempt + 1,
                    !.status = 0 ]
    /\ UNCHANGED << supervisorVars, registry, replay, pipeline, merge, scheduler, journal, chunks, branch, launch, history, handling, refresh, commitMsg, pollers, stopping >>

\* the while condition fails: return 1
RetryExhausted ==
    /\ retry.on
    /\ retry.pc = "loop"
    /\ ~(retry.attempt <= retry.MAX_RETRIES)
    /\ retry' = [ retry EXCEPT !.pc = "returned", !.status = 1 ]
    /\ UNCHANGED << supervisorVars, registry, replay, pipeline, merge, scheduler, journal, chunks, branch, launch, history, handling, refresh, commitMsg, pollers, stopping >>

RetryNext ==
    \/ LoadConfig
    \/ RetryAttempt
    \/ RetrySleep
    \/ RetryExhausted

RetrySpec == RetryInit /\ [][RetryNext]_vars

----------------------------------------------------------------------------
(* Pipeline Driver: run_pipeline and the end of main (opencode-loop.sh) *)

\* the number of lines of the review agent's output
MaxReview == 2

MsgNothingToCommit == "No changes after implementation/review. Nothing to commit."

\* a line of more text than a pipe holds
LongLine == "a.ts:1 bug, and 100 KB more"

\* the lines the review agent prints
ReviewLines ==
    { "LGTM", "lgtm", "ESC[0mLGTM", "  LGTM", "   ", "", "> build", "a.ts:1 bug", LongLine }

\* what the review agent prints
ReviewResponses == UNION { [ 1..n -> ReviewLines ] : n \in 0..MaxReview }

\* sed 's/\x1b\[[0-9;]*m//g' on one line
strip_ansi(l) == IF l = "ESC[0mLGTM" THEN "LGTM" ELSE l

\* sed 's/^[[:space:]]*//' | sed 's/[[:space:]]*$//' on one line
trim(l) ==
    CASE l = "  LGTM" -> "LGTM"
      [] l = "   "    -> ""
      [] OTHER        -> l

\* $( ... ): command substitution drops the newlines that end the output
RECURSIVE Substituted(_)
Substituted(lines) ==
    IF lines # << >> /\ lines[Len(lines)] = "" THEN Substituted(SubSeq(lines, 1, Len(lines) - 1))
    ELSE lines

\* cleanup_text_output: strip_ansi | grep -v '^>' | sed '/^$/d' | trim
cleanup_text_output(raw) ==
    LET stripped == [ i \in 1..Len(raw) |-> strip_ansi(raw[i]) ]
        unquoted == SelectSeq(stripped, LAMBDA l : l # "> build")
        nonempty == SelectSeq(unquoted, LAMBDA l : l # "")
    IN  Substituted([ i \in 1..Len(nonempty) |-> trim(nonempty[i]) ])

\* a line grep -Ei '^LGTM$' selects
IsLgtm(l) == l \in { "LGTM", "lgtm" }

\* echo "$review_clean" | grep -Eiq '^LGTM$' under set -o pipefail: the
\* status is 0 when a line is selected and echo has written all of its text
\* by the time grep -q exits at that line
GrepLgtm(lines) ==
    \E i \in 1..Len(lines) :
        /\ IsLgtm(lines[i])
        /\ \A j \in 1..(i - 1) : ~IsLgtm(lines[j])
        /\ \A j \in (i + 1)..Len(lines) : lines[j] # LongLine

\* run_pipeline has not returned, the driver has not exited
NotYet == -1

\* log "$step" "$*"
Log(p, tag, msg) == [ p EXCEPT !.log = Append(p.log, StructuredLine(tag, msg)) ]

\* retry_with_backoff opencode run ...
Agent(p, name) == [ p EXCEPT !.agents = Append(p.agents, name) ]

\* return 1
Return1(p) == [ p EXCEPT !.pc = "main", !.status = 1 ]

\* a command of the phase fails; failedIn keeps the first phase this happens in
Fails(p, phase) ==
    IF p.failedIn = "none" THEN [ p EXCEPT !.failedIn = phase ] ELSE p

Goto(p, pc) == [ p EXCEPT !.pc = pc ]

\* clone_and_prepare_repo || return 1, and the CLONE line that follows
Clone(p, outcome) ==
    LET p1 == Log(p, "CLONE", MsgStarting)
    IN  IF outcome = "fails" THEN Return1(Fails(p1, "CLONE"))
        ELSE Goto(Log(Log([ p1 EXCEPT !.done = p1.done \cup { "workspace" } ],
                          "CLONE", "Checked out new branch"),
                      "CLONE", MsgCompleted),
                  "setup")

\* run_post_clone_commands || return 1, and the SETUP line that follows
Setup(p, outcome) ==
    LET p1 == Log(p, "SETUP", "Running post-clone command")
    IN  IF outcome = "fails" THEN Return1(Fails(p1, "SETUP"))
        ELSE Goto(Log(p1, "SETUP", MsgCompleted), "plan")

\* the plan: taken from the caller when SKIP_PLAN is 1, else made by the
\* plan agent. slips: the printf that writes the plan file fails, which
\* nothing tests
Plan(p, outcome) ==
    IF p.SKIP_PLAN
    THEN LET p1 == Log(p, "PLAN", MsgSkippedPlan)
             p2 == IF outcome = "slips" THEN Fails(p1, "PLAN")
                   ELSE [ p1 EXCEPT !.planFile = TRUE ]
         IN  IF p.planGiven
             THEN Goto(Log(p2, "PLAN", "Plan saved to /tmp/plan.md"), "implement")
             ELSE Return1(Fails(Log(p1, "PLAN", "Error: --skip-plan requires a plan"), "PLAN"))
    ELSE LET p1 == Agent(Log(p, "PLAN", MsgStarting), "plan")
         IN  IF outcome = "fails" THEN Return1(Fails(p1, "PLAN"))
             ELSE IF outcome = "empty"
             THEN Return1(Fails(Log(p1, "PLAN", "Planning output was empty."), "PLAN"))
             ELSE LET p2 == IF outcome = "slips" THEN Fails(p1, "PLAN")
                            ELSE [ p1 EXCEPT !.planFile = TRUE ]
                  IN  Goto(Log(p2, "PLAN", MsgCompletedPlan), "implement")

\* the implementation agent. slips: the cat that writes the prompt file
\* fails, which nothing tests
Implement(p, outcome) ==
    LET p1 == Log(p, "IMPLEMENT", MsgStarting)
        p2 == IF outcome = "slips" THEN Fails(p1, "IMPLEMENT") ELSE p1
        p3 == Agent(p2, "implement")
    IN  IF outcome = "fails" THEN Return1(Fails(p3, "IMPLEMENT"))
        ELSE Goto(Log([ p3 EXCEPT !.done = p3.done \cup { "changes" } ],
                      "IMPLEMENT", MsgCompleted),
                  "review")

\* the review agent. slips: git diff >> "$diff_file" fails, which nothing tests
Review(p, outcome) ==
    LET p1 == Log(p, "REVIEW", MsgStarting)
        p2 == IF outcome = "slips" THEN Fails(p1, "REVIEW") ELSE p1
        p3 == Agent(p2, "review")
    IN  IF outcome = "fails" THEN Return1(Fails(p3, "REVIEW"))
        ELSE Goto(Log([ p3 EXCEPT !.review_clean = cleanup_text_output(p3.review_raw) ],
                      "REVIEW", MsgCompleted),
                  "fix")

\* the fix agent, unless grep finds an LGTM line in the review
Fix(p, outcome) ==
    IF ~GrepLgtm(p.review_clean)
    THEN LET p1 == Agent(Log(p, "FIX", "Review found issues; running fix phase"), "fix")
         IN  IF outcome = "fails" THEN Return1(Fails(p1, "FIX"))
             ELSE Goto(Log([ p1 EXCEPT !.did_run_fix = TRUE ], "FIX", MsgCompleted), "commit")
    ELSE Goto(Log(p, "FIX", MsgSkippedFix), "commit")

\* a commit phase that does not test git status --porcelain
CommitAnyway(p, outcome) ==
    LET p1 == Log(p, "COMMIT", "Preparing commit")
        p2 == Agent([ p1 EXCEPT !.tree = IF outcome = "clean" THEN "clean" ELSE "dirty" ], "commit")
        p3 == Log(p2, "COMMIT", "Committing with message: m")
    IN  IF outcome \in { "add fails", "agent fails", "commit fails" }
        THEN Return1(Fails(p1, "COMMIT"))
        ELSE Goto([ p3 EXCEPT !.done = p3.done \cup { "commit" } ], "push")

\* git add -A, the test of git status --porcelain, the commit agent, git commit
Commit(p, outcome) ==
    LET p1 == Log(p, "COMMIT", "Preparing commit")
    IN  IF outcome = "add fails" THEN Return1(Fails(p1, "COMMIT"))
        ELSE IF outcome = "clean"
        THEN Return1(Fails(Log([ p1 EXCEPT !.tree = "clean" ], "COMMIT", MsgNothingToCommit),
                           "COMMIT"))
        ELSE LET p2 == Agent([ p1 EXCEPT !.tree = "dirty" ], "commit")
             IN  IF outcome = "agent fails" THEN Return1(Fails(p2, "COMMIT"))
                 ELSE LET p3 == Log(p2, "COMMIT", "Committing with message: m")
                      IN  IF outcome = "commit fails" THEN Return1(Fails(p3, "COMMIT"))
                          ELSE Goto([ p3 EXCEPT !.done = p3.done \cup { "commit" } ], "push")

\* resolve_repo_and_push_target, git push, wait_for_remote_branch, git fetch
Push(p, outcome) ==
    LET p1 == Log(p, "PUSH", MsgStarting)
    IN  IF outcome = "no repo" THEN Return1(Fails(Log(p1, "PUSH", "Error: Could not detect target GitHub repository"), "PUSH"))
        ELSE LET p2 == Log(p1, "PUSH", "Using push target")
             IN  IF outcome = "push fails" THEN Return1(Fails(p2, "PUSH"))
                 ELSE LET p3 == [ p2 EXCEPT !.done = p2.done \cup { "branch" } ]
                      IN  IF outcome = "not visible"
                          THEN Return1(Fails(Log(p3, "PUSH", "Error: Branch was pushed but is not visible"), "PUSH"))
                          ELSE IF outcome = "fetch fails" THEN Return1(Fails(p3, "PUSH"))
                          ELSE Goto(p3, "pr")

\* branch_has_commits_ahead, the PR agent, gh pr create, the DONE lines,
\* report_model_costs, cleanup_workspace_on_success
Pr(p, outcome) ==
    IF outcome = "not ahead" THEN Return1(Fails(Log(p, "PR", "Error: No commits ahead"), "PR"))
    ELSE LET p1 == Agent(Log(p, "PR", MsgStarting), "pr")
         IN  IF outcome = "fails" THEN Return1(Fails(p1, "PR"))
             ELSE LET p2 == [ p1 EXCEPT !.done = p1.done \cup { "pull request" } ]
                      p3 == Log(Log(Log(Log(p2, "PR", MsgCompleted), "DONE", MsgPrCreated),
                                    "DONE", MsgTotal),
                                "COST", "Estimated total multiplier = 3.00")
                  IN  [ p3 EXCEPT !.pc = "main", !.status = 0, !.workspace = FALSE ]

\* cleanup_plan_file
cleanup_plan_file(p) ==
    IF p.planFile THEN [ Log(p, "CLEANUP", "Removing runtime plan file") EXCEPT !.planFile = FALSE ] ELSE p

\* main, after run_pipeline has returned: both branches of its if
MainExit(p) ==
    [ cleanup_plan_file(p) EXCEPT !.pc = "exited", !.exit = IF p.status = 0 THEN 0 ELSE 1 ]

NewPipeline(skip, given, raw) ==
    [ on |-> TRUE, pc |-> "clone", SKIP_PLAN |-> skip, planGiven |-> given,
      review_raw |-> raw, review_clean |-> << >>, did_run_fix |-> FALSE,
      log |-> << >>, agents |-> << >>, done |-> { }, workspace |-> TRUE, planFile |-> FALSE,
      tree |-> "untested", failedIn |-> "none", status |-> NotYet, exit |-> NotYet ]

\* the driver has reached run_pipeline
PipelineInit ==
    /\ NoSupervisor
    /\ replay = NoReplay
    /\ retry = NoRetry
    /\ merge = NoMerge
    /\ scheduler = NoScheduler
    /\ journal = NoJournal
    /\ RestOff
    /\ \E skip \in BOOLEAN, given \in BOOLEAN, raw \in ReviewResponses :
         /\ given => skip
         /\ pipeline = NewPipeline(skip, given, raw)

PipelineStep(pc, next) ==
    /\ pipeline.on
    /\ pipeline.pc = pc
    /\ pipeline' = next
    /\ UNCHANGED << supervisorVars, registry, replay, retry, merge, scheduler, journal, chunks, branch, launch, history, handling, refresh, commitMsg, pollers, stopping >>

PipelineClone  == \E o \in { "ok", "fails" } : PipelineStep("clone", Clone(pipeline, o))
PipelineSetup  == \E o \in { "ok", "fails" } : PipelineStep("setup", Setup(pipeline, o))
PipelinePlan   ==
    \E o \in { "ok", "fails", "empty", "slips" } : PipelineStep("plan", Plan(pipeline, o))
PipelineImplement ==
    \E o \in { "ok", "fails", "slips" } : PipelineStep("implement", Implement(pipeline, o))
PipelineReview ==
    \E o \in { "ok", "fails", "slips" } : PipelineStep("review", Review(pipeline, o))
PipelineFix    == \E o \in { "ok", "fails" } : PipelineStep("fix", Fix(pipeline, o))
PipelineCommit ==
    \E o \in { "ok", "add fails", "clean", "agent fails", "commit fails" } :
        PipelineStep("commit", Commit(pipeline, o))
PipelinePush   ==
    \E o \in { "ok", "no repo", "push fails", "not visible", "fetch fails" } :
        PipelineStep("push", Push(pipeline, o))
PipelinePr     == \E o \in { "ok", "not ahead", "fails" } : PipelineStep("pr", Pr(pipeline, o))
PipelineExit   == PipelineStep("main", MainExit(pipeline))

PipelineNext ==
    \/ PipelineClone
    \/ PipelineSetup
    \/ PipelinePlan
    \/ PipelineImplement
    \/ PipelineReview
    \/ PipelineFix
    \/ PipelineCommit
    \/ PipelinePush
    \/ PipelinePr
    \/ PipelineExit

PipelineSpec == PipelineInit /\ [][PipelineNext]_vars

----------------------------------------------------------------------------
(* PR and merge automation: refreshRunPrStatus, executeMerge, mergeRunPr,  *)
(* resolveAndMergeRunPr, maybeAutoMergeRun (main/script-runner.ts)         *)

\* the operations called in one session
MaxTasks == 2

\* the operations in progress at one time
Slots == { 1, 2 }

\* the directories mkdtempSync can create
TempDirs == { "opencode-loop-merge-a", "opencode-loop-merge-b", "opencode-loop-merge-c" }

NoDir == "none"

\* what gh pr view answers: the pull request is merged, or open and
\* conflicting, mergeable or not yet known; or the command fails
Views == { "MERGED", "CONFLICTING", "MERGEABLE", "UNKNOWN", "error" }

\* applyPrView
applyPrView(state, view) ==
    [ state EXCEPT
        !.prMergeStatus =
            IF view = "MERGED" THEN "merged"
            ELSE IF view = "CONFLICTING" THEN "conflict"
            ELSE IF view = "MERGEABLE" THEN "ready"
            ELSE "checking",
        !.prMergeMessage =
            IF view = "MERGED" THEN "Pull request has been merged."
            ELSE IF view = "CONFLICTING" THEN "Pull request has merge conflicts."
            ELSE IF view = "MERGEABLE" THEN "Pull request is mergeable."
            ELSE "Mergeability is still being calculated by GitHub.",
        !.refs = TRUE ]

\* refreshRunPrStatus up to its await
RefreshBegin(state) ==
    [ state EXCEPT !.prMergeStatus = "checking",
                   !.prMergeMessage = "Checking pull request status..." ]

\* refreshRunPrStatus from its await on
RefreshEnd(state, view) ==
    IF view = "error"
    THEN [ state EXCEPT !.prMergeStatus = "failed",
                        !.prMergeMessage = "Failed to refresh PR status" ]
    ELSE applyPrView(state, view)

NoTask ==
    [ op |-> "none", pc |-> "idle", phase |-> "none", refreshed |-> "none", spawned |-> FALSE,
      setAuto |-> FALSE, result |-> "none", tempRoot |-> NoDir, step |-> 0, made |-> FALSE,
      conflictedFiles |-> FALSE, agent |-> FALSE, remainingConflicts |-> "unknown",
      pushed |-> FALSE, rechecked |-> "none" ]

\* the function returns
Return(task, result) == [ task EXCEPT !.pc = "done", !.result = result ]

\* a step of an operation: the run state and the task it leaves
Left(state, task) == [ state |-> state, task |-> task ]

\* the call of refreshRunPrStatus and the await of its result
AwaitRefresh(state, task, phase) ==
    Left(RefreshBegin(state), [ task EXCEPT !.pc = "refresh", !.phase = phase ])

\* executeMerge up to its await: the status is set and gh pr merge is started
executeMerge(state, task) ==
    IF state.prUrl = NoUrl THEN Left(state, Return(task, "fail"))
    ELSE Left([ state EXCEPT !.prMergeStatus = "auto-merging",
                             !.prMergeMessage = "Submitting merge request..." ],
              [ task EXCEPT !.pc = "merging", !.spawned = TRUE, !.setAuto = TRUE ])

\* an executeMerge that marks the run itself as failed when gh pr merge fails
MergeFailedRun(state, task) ==
    Left([ state EXCEPT !.status = "failed", !.prMergeStatus = "failed",
                        !.prMergeMessage = "Failed to merge PR" ],
         Return(task, "fail"))

\* executeMerge when gh pr merge has ended and it fails
MergeFailed(state, task) ==
    Left([ state EXCEPT !.prMergeStatus = "failed", !.prMergeMessage = "Failed to merge PR" ],
         Return(task, "fail"))

\* executeMerge after its refresh
AfterMergeRefresh(state, task, view) ==
    IF view = "error" \/ state.prMergeStatus # "merged"
    THEN Left([ state EXCEPT
                  !.prMergeStatus = "auto-merging",
                  !.prMergeMessage = "Auto-merge enabled. Waiting for checks and merge." ],
              Return([ task EXCEPT !.setAuto = TRUE ], "ok"))
    ELSE Left(state, Return(task, "ok"))

\* a mergeRunPr that does not look at the refreshed status
mergeRunPrBlind(state, task) == executeMerge(state, task)

\* mergeRunPr after its refresh
mergeRunPr(state, task) ==
    IF state.prMergeStatus = "conflict" THEN Left(state, Return(task, "fail"))
    ELSE executeMerge(state, task)

\* a maybeAutoMergeRun that skips on conflict only
maybeAutoMergeUnlessConflict(state, task, view) ==
    IF state.prMergeStatus = "conflict"
    THEN Left([ state EXCEPT !.prMergeMessage = "Auto-merge skipped because this PR has merge conflicts." ],
              Return(task, "skipped"))
    ELSE executeMerge(state, task)

\* maybeAutoMergeRun after its refresh
maybeAutoMergeRefreshed(state, task, view) ==
    IF view = "error" /\ state.prMergeStatus = "failed" THEN Left(state, Return(task, "skipped"))
    ELSE IF state.prMergeStatus = "conflict"
    THEN Left([ state EXCEPT !.prMergeMessage = "Auto-merge skipped because this PR has merge conflicts." ],
              Return(task, "skipped"))
    ELSE IF state.prMergeStatus \in { "ready", "checking" } THEN executeMerge(state, task)
    ELSE Left(state, Return(task, "skipped"))

\* the catch block of resolveAndMergeRunPr
ResolveFailed(state, task) ==
    Left([ state EXCEPT !.prMergeStatus = "failed", !.prMergeMessage = "Resolve & merge failed" ],
         Return(task, "fail"))

\* the commands resolvePrConflictsInTempClone awaits, in order
ResolveSteps ==
    << "clone", "config user.name", "config user.email", "fetch", "checkout", "merge",
       "diff", "opencode", "diff again", "add", "commit", "push" >>

\* the commands whose failure is caught inside the try block
Caught == { "merge", "commit" }

\* resolvePrConflictsInTempClone up to its first await: a directory is made
\* unless the function throws first
ResolveBegin(state, task, fs, dir) ==
    IF state.prUrl = NoUrl \/ ~state.refs
    THEN [ fs |-> fs, task |-> [ task EXCEPT !.pc = "thrown" ] ]
    ELSE [ fs |-> fs \union { dir },
           task |-> [ task EXCEPT !.pc = "resolving", !.step = 1, !.tempRoot = dir, !.made = TRUE ] ]

\* what a command of resolvePrConflictsInTempClone tells: conflictedFiles and
\* remainingConflicts from the two git diff, the call of the agent, the push
Noted(task, outcome) ==
    LET name == ResolveSteps[task.step]
    IN  [ task EXCEPT
            !.conflictedFiles = IF name = "diff" THEN outcome = "conflicts" ELSE @,
            !.agent = IF name = "opencode" THEN TRUE ELSE @,
            !.remainingConflicts = IF name = "diff again" /\ outcome = "conflicts" THEN "some"
                                   ELSE IF name = "diff again" /\ outcome = "ok" THEN "none"
                                   ELSE @,
            !.pushed = IF name = "push" THEN outcome = "ok" ELSE @ ]

\* a resolution that removes the directory only when every command succeeded
ResolveStepKeeping(before, fs, outcome) ==
    LET task   == Noted(before, outcome)
        name   == ResolveSteps[task.step]
        throws == \/ outcome = "fails" /\ name \notin Caught
                  \/ outcome = "conflicts" /\ name = "diff again"
        next   == IF name = "diff" /\ outcome = "ok" THEN task.step + 2 ELSE task.step + 1
    IN  IF throws THEN [ fs |-> fs, task |-> [ task EXCEPT !.pc = "thrown" ] ]
        ELSE IF name = "push"
        THEN [ fs |-> fs \ { task.tempRoot }, task |-> [ task EXCEPT !.pc = "resolved" ] ]
        ELSE [ fs |-> fs, task |-> [ task EXCEPT !.step = next ] ]

\* one awaited command of resolvePrConflictsInTempClone ends; the finally
\* block runs when the function is left
ResolveStep(before, fs, outcome) ==
    LET task   == Noted(before, outcome)
        name   == ResolveSteps[task.step]
        throws == \/ outcome = "fails" /\ name \notin Caught
                  \/ outcome = "conflicts" /\ name = "diff again"
        next   == IF name = "diff" /\ outcome = "ok" THEN task.step + 2 ELSE task.step + 1
    IN  IF throws
        THEN [ fs |-> fs \ { task.tempRoot }, task |-> [ task EXCEPT !.pc = "thrown" ] ]
        ELSE IF name = "push"
        THEN [ fs |-> fs \ { task.tempRoot }, task |-> [ task EXCEPT !.pc = "resolved" ] ]
        ELSE [ fs |-> fs, task |-> [ task EXCEPT !.step = next ] ]

\* resolveAndMergeRunPr once resolvePrConflictsInTempClone has thrown or returned
AfterResolve(state, task) ==
    IF task.pc = "thrown" THEN ResolveFailed(state, task)
    ELSE AwaitRefresh(state, task, "resolved")

\* resolveAndMergeRunPr after its first refresh, up to the call of
\* resolvePrConflictsInTempClone
resolveAndMergeRunPr(state, task, view) ==
    IF view = "error" /\ state.prMergeStatus = "failed" THEN Left(state, Return(task, "fail"))
    ELSE IF state.prMergeStatus # "conflict" THEN executeMerge(state, task)
    ELSE Left([ state EXCEPT
                  !.prMergeStatus = "checking",
                  !.prMergeMessage = "Resolving conflicts with AI and preparing merge..." ],
              [ task EXCEPT !.pc = "resolve" ])

\* a resolveAndMergeRunPr that asks for the merge whatever the refresh says
AfterResolveRefreshAnyway(state, task) == executeMerge(state, task)

\* resolveAndMergeRunPr after the refresh that follows the resolution
AfterResolveRefresh(state, task) ==
    IF state.prMergeStatus = "conflict" THEN ResolveFailed(state, task)
    ELSE executeMerge(state, task)

\* the continuation of the function that awaited refreshRunPrStatus
Continue(state, task, view) ==
    IF task.phase = "merged" THEN AfterMergeRefresh(state, task, view)
    ELSE IF task.phase = "resolved" THEN AfterResolveRefresh(state, task)
    ELSE IF task.op = "refreshRunPrStatus"
    THEN Left(state, Return(task, IF view = "error" THEN "fail" ELSE "ok"))
    ELSE IF task.op = "mergeRunPr" THEN mergeRunPr(state, task)
    ELSE IF task.op = "maybeAutoMergeRun" THEN maybeAutoMergeRefreshed(state, task, view)
    ELSE resolveAndMergeRunPr(state, task, view)

Operations == { "refreshRunPrStatus", "mergeRunPr", "resolveAndMergeRunPr", "maybeAutoMergeRun" }

MergeInit ==
    /\ NoSupervisor
    /\ replay = NoReplay
    /\ retry = NoRetry
    /\ pipeline = NoPipeline
    /\ scheduler = NoScheduler
    /\ journal = NoJournal
    /\ RestOff
    /\ \E status \in { "completed", "failed" }, auto \in BOOLEAN, url \in { NoUrl, PrUrl } :
         merge = [ on |-> TRUE,
                   state |-> [ status |-> status, autoMerge |-> auto, prUrl |-> url,
                               prMergeStatus |-> IF url = NoUrl THEN "none" ELSE "checking",
                               prMergeMessage |-> "null", refs |-> FALSE ],
                   tasks |-> [ i \in Slots |-> NoTask ],
                   fs |-> { },
                   calls |-> 0 ]

MergeUnchanged ==
    UNCHANGED << run, persisted, active, process, logPoller, logLineBuffer, stdoutBuffer,
                 stderrBuffer, pollPc, outPipe, errPipe, file, alive, childCode, childClosed,
                 midLine, emitted, killTimer, signals, shutdown, stopCalled, registry, replay,
                 retry, pipeline, scheduler, journal, chunks, branch, launch, history, handling, refresh, commitMsg, pollers, stopping >>

\* the task in slot i and the run state become what a step left
MergeLeaves(i, left) ==
    /\ merge' = [ merge EXCEPT !.state = left.state, !.tasks[i] = left.task ]
    /\ MergeUnchanged

\* the same, for the step that begins the task
MergeBegins(i, left) ==
    /\ merge' = [ merge EXCEPT !.state = left.state, !.tasks[i] = left.task, !.calls = @ + 1 ]
    /\ MergeUnchanged

\* the task in slot i has not begun, or has returned
Free(i) == merge.tasks[i].pc \in { "idle", "done" }

\* one of the exported functions, or maybeAutoMergeRun, is called; the close
\* handler calls maybeAutoMergeRun before any request on the pull request
MergeCall(i, op) ==
    /\ merge.on
    /\ merge.calls < MaxTasks
    /\ Free(i)
    /\ \A j \in 1..(i - 1) : ~Free(j)
    /\ op = "maybeAutoMergeRun" => merge.calls = 0
    /\ LET task == [ NoTask EXCEPT !.op = op ]
           state == merge.state
       IN  IF \/ state.prUrl = NoUrl
              \/ op = "maybeAutoMergeRun" /\ (~state.autoMerge \/ state.status # "completed")
           THEN MergeBegins(i, Left(state, Return(task, IF op = "maybeAutoMergeRun"
                                                        THEN "skipped" ELSE "fail")))
           ELSE MergeBegins(i, AwaitRefresh(state, task, "first"))

MergeCalled == \E i \in Slots, op \in Operations : MergeCall(i, op)

\* gh pr view ends and the function that awaited the refresh goes on; when it
\* goes on to resolvePrConflictsInTempClone, mkdtempSync makes a directory
\* that does not exist yet
ViewReturns ==
    \E i \in Slots, view \in Views, dir \in TempDirs :
        /\ merge.on
        /\ merge.tasks[i].pc = "refresh"
        /\ dir \notin merge.fs
        /\ LET task == [ merge.tasks[i] EXCEPT
                           !.refreshed = IF @ = "none" THEN view ELSE @,
                           !.rechecked = IF merge.tasks[i].phase # "resolved" THEN @
                                        ELSE IF view = "CONFLICTING" THEN "conflict"
                                        ELSE "clear" ]
               cont  == Continue(RefreshEnd(merge.state, view), task, view)
               begun == ResolveBegin(cont.state, cont.task, merge.fs, dir)
               left  == IF cont.task.pc # "resolve" THEN cont
                        ELSE IF begun.task.pc = "thrown" THEN AfterResolve(cont.state, begun.task)
                        ELSE Left(cont.state, begun.task)
           IN  /\ merge' = [ merge EXCEPT
                               !.state = left.state,
                               !.tasks[i] = left.task,
                               !.fs = IF cont.task.pc = "resolve" THEN begun.fs ELSE @ ]
               /\ MergeUnchanged

\* gh pr merge ends
MergeReturns ==
    \E i \in Slots, ok \in BOOLEAN :
        /\ merge.on
        /\ merge.tasks[i].pc = "merging"
        /\ IF ok THEN MergeLeaves(i, AwaitRefresh(merge.state, merge.tasks[i], "merged"))
           ELSE MergeLeaves(i, MergeFailed(merge.state, merge.tasks[i]))

\* a command of resolvePrConflictsInTempClone ends
ResolveStepped ==
    \E i \in Slots, outcome \in { "ok", "fails", "conflicts" } :
        /\ merge.on
        /\ merge.tasks[i].pc = "resolving"
        /\ outcome = "conflicts" => ResolveSteps[merge.tasks[i].step] \in { "diff", "diff again" }
        /\ LET stepped == ResolveStep(merge.tasks[i], merge.fs, outcome)
               left    == IF stepped.task.pc = "resolving" THEN Left(merge.state, stepped.task)
                          ELSE AfterResolve(merge.state, stepped.task)
           IN  /\ merge' = [ merge EXCEPT !.state = left.state, !.tasks[i] = left.task,
                                          !.fs = stepped.fs ]
               /\ MergeUnchanged

MergeNext ==
    \/ MergeCalled
    \/ ViewReturns
    \/ MergeReturns
    \/ ResolveStepped

MergeSpec == MergeInit /\ [][MergeNext]_vars

----------------------------------------------------------------------------
(* The persistence scheduler: persistRunsNow, schedulePersist,             *)
(* persistRunState and the flush of cleanupAllRuns (main/script-runner.ts) *)

\* the changes one run's state goes through
MaxVersion == 3

RunIds == { "r1", "r2" }

\* no entry of persistedRuns, or of the history file, for a run
NoSnapshot == [ v |-> -1, status |-> "none" ]

\* the value JSON.stringify finds for a run: the registry holds either a copy
\* or, for a run resumed at startup, the RunState object of activeRuns itself
Held(s, r) == IF s.alias[r] THEN s.live[r] ELSE s.registry[r]

\* persistRunsNow: every entry of persistedRuns is written, unless the write throws
persistRunsNow(s, ok) ==
    IF ok THEN [ s EXCEPT !.disk = [ r \in RunIds |-> Held(s, r) ] ] ELSE s

\* a schedulePersist that arms a timer on every call
schedulePersistAlways(s) ==
    [ s EXCEPT !.persistTimer = TRUE, !.timers = @ + 1 ]

\* schedulePersist
schedulePersist(s) ==
    IF s.persistTimer THEN s
    ELSE [ s EXCEPT !.persistTimer = TRUE, !.timers = @ + 1 ]

\* persistRunState
persistRunState(s, r) ==
    schedulePersist([ s EXCEPT !.registry[r] = s.live[r],
                               !.alias[r] = FALSE,
                               !.snapshot[r] = s.live[r],
                               !.last = "persistRunState" ])

\* a handler changes the RunState object
Changed(s, r) == [ s EXCEPT !.live[r].v = @ + 1 ]

PersistInit ==
    /\ NoSupervisor
    /\ replay = NoReplay
    /\ retry = NoRetry
    /\ pipeline = NoPipeline
    /\ merge = NoMerge
    /\ journal = NoJournal
    /\ RestOff
    /\ \E resumed \in SUBSET RunIds, migrated \in BOOLEAN :
         scheduler =
           [ on |-> TRUE,
             live |-> [ r \in RunIds |-> [ v |-> 0, status |-> "running" ] ],
             registry |-> [ r \in RunIds |-> NoSnapshot ],
             alias |-> [ r \in RunIds |-> r \in resumed ],
             snapshot |-> [ r \in RunIds |-> NoSnapshot ],
             disk |-> [ r \in RunIds |->
                          IF r \in resumed THEN [ v |-> 0, status |-> "running" ] ELSE NoSnapshot ],
             persistTimer |-> migrated,
             timers |-> IF migrated THEN 1 ELSE 0,
             down |-> FALSE,
             last |-> "loadPersistedRuns" ]

PersistUnchanged ==
    UNCHANGED << run, persisted, active, process, logPoller, logLineBuffer, stdoutBuffer,
                 stderrBuffer, pollPc, outPipe, errPipe, file, alive, childCode, childClosed,
                 midLine, emitted, killTimer, signals, shutdown, stopCalled, registry, replay,
                 retry, pipeline, merge, journal, chunks, branch, launch, history, handling, refresh, commitMsg, pollers, stopping >>

\* a handler changes a run and ends with persistRunState
PersistCalled ==
    \E r \in RunIds, change \in BOOLEAN :
        /\ scheduler.on
        /\ change => scheduler.live[r].v < MaxVersion
        /\ scheduler' = persistRunState(IF change THEN Changed(scheduler, r) ELSE scheduler, r)
        /\ PersistUnchanged

\* poll() moves logFileOffset on and, with no complete line read, does not persist
PersistSkipped ==
    \E r \in RunIds :
        /\ scheduler.on
        /\ scheduler.live[r].v < MaxVersion
        /\ scheduler' = [ Changed(scheduler, r) EXCEPT !.last = "poll" ]
        /\ PersistUnchanged

\* the callback of the timer armed by schedulePersist
PersistTimerFires ==
    \E ok \in BOOLEAN :
        /\ scheduler.on
        /\ scheduler.timers > 0
        /\ scheduler' = [ persistRunsNow([ scheduler EXCEPT !.persistTimer = FALSE ], ok)
                            EXCEPT !.timers = @ - 1,
                                   !.last = IF ok THEN "flush" ELSE "flush failed" ]
        /\ PersistUnchanged

\* cleanupAllRuns: the timer is cleared, the running runs are stored as
\* stopped and the registry is written at once
PersistCleanup ==
    \E ok \in BOOLEAN :
        /\ scheduler.on
        /\ ~scheduler.down
        /\ LET stopped == { r \in RunIds : scheduler.live[r].status = "running" }
               s1 == [ scheduler EXCEPT
                         !.persistTimer = FALSE,
                         !.timers = IF scheduler.persistTimer THEN @ - 1 ELSE @,
                         !.live = [ r \in RunIds |->
                                      IF r \in stopped THEN [ @[r] EXCEPT !.status = "stopped" ]
                                      ELSE @[r] ],
                         !.down = TRUE,
                         !.last = "cleanupAllRuns" ]
               s2 == [ s1 EXCEPT
                         !.registry = [ r \in RunIds |->
                                          IF r \in stopped THEN s1.live[r] ELSE @[r] ],
                         !.alias = [ r \in RunIds |-> IF r \in stopped THEN FALSE ELSE @[r] ],
                         !.snapshot = [ r \in RunIds |->
                                          IF r \in stopped THEN NoSnapshot ELSE @[r] ] ]
           IN  scheduler' = persistRunsNow(s2, ok)
        /\ PersistUnchanged

PersistNext ==
    \/ PersistCalled
    \/ PersistSkipped
    \/ PersistTimerFires
    \/ PersistCleanup

PersistSpec == PersistInit /\ [][PersistNext]_vars

----------------------------------------------------------------------------
(* The log list of a run across a restart: loadPersistedRuns and           *)
(* handleLogEntry on a list near MAX_LOGS_PER_RUN                          *)

\* the lines handled after the load
MaxFed == 2

\* a log list of n entries: the oldest and n - 1 later ones
LogsOf(n) ==
    [ i \in 1..n |->
        IF i = 1 THEN parseLine(StructuredLine("INIT", MsgText), "T1")
        ELSE parseLine(StructuredLine("IMPLEMENT", MsgText), "T1") ]

\* the runs persistRunsNow can have written with one entry below the cap, or at it
LongRuns ==
    { [ NewRunState(FALSE, FALSE, bg, FALSE) EXCEPT
          !.status = st, !.finishedAt = (st # "running"), !.logs = LogsOf(n) ] :
        bg \in BOOLEAN, st \in { "running", "completed" },
        n \in { MAX_LOGS_PER_RUN - 1, MAX_LOGS_PER_RUN } }

\* the application starts with a registry file of one such run; its process
\* is still there or not
JournalInit ==
    /\ NoSupervisor
    /\ replay = NoReplay
    /\ retry = NoRetry
    /\ pipeline = NoPipeline
    /\ merge = NoMerge
    /\ scheduler = NoScheduler
    /\ RestOff
    /\ \E r \in LongRuns, there \in BOOLEAN :
         journal = [ on |-> TRUE, state |-> r, there |-> there, loaded |-> FALSE,
                     resumed |-> FALSE, fed |-> 0 ]

JournalUnchanged ==
    UNCHANGED << supervisorVars, registry, replay, retry, pipeline, merge, scheduler,
                 chunks, branch, launch, history, handling, refresh, commitMsg, pollers, stopping >>

\* loadPersistedRuns: a running background run whose process is there is
\* resumed, any other running run is marked as stopped
JournalLoad ==
    /\ journal.on
    /\ ~journal.loaded
    /\ LET r       == journal.state
           resumed == r.status = "running" /\ r.runMode = "background" /\ journal.there
       IN  \E now \in Clock :
             journal' = [ journal EXCEPT
                            !.loaded = TRUE,
                            !.resumed = resumed,
                            !.state = IF r.status = "running" /\ ~resumed
                                      THEN MarkStopped(r, now) ELSE r ]
    /\ JournalUnchanged

\* poll() hands a line of the log file of the resumed run to parseLine and
\* handleLogEntry
JournalEntry ==
    /\ journal.on
    /\ journal.loaded
    /\ journal.resumed
    /\ journal.fed < MaxFed
    /\ \E raw \in ReplayLines, now \in Clock, planFile \in BOOLEAN :
         journal' = [ journal EXCEPT
                        !.state = ParseAndHandle(journal.state, raw, now, planFile),
                        !.fed = @ + 1 ]
    /\ JournalUnchanged

JournalNext ==
    \/ JournalLoad
    \/ JournalEntry

JournalSpec == JournalInit /\ [][JournalNext]_vars

----------------------------------------------------------------------------
(* A byte stream delivered in chunks: the 'data' handlers of startRun, the *)
(* reads of poll() and the flush at the end of the stream                  *)

\* the bytes of the stream
MaxBytes == 3

\* a letter, a space, a newline, and the two bytes of one two-byte character
Bytes == { "a", " ", "\n", "c3", "a9" }

ByteStreams == UNION { [ 1..n -> Bytes ] : n \in 0..MaxBytes }

\* Buffer.prototype.toString('utf-8'): a lead byte with its continuation is
\* one character; a lead byte that is not followed by it, and a continuation
\* byte on its own, decode to U+FFFD each
RECURSIVE toString(_)
toString(bytes) ==
    IF bytes = << >> THEN << >>
    ELSE IF Head(bytes) = "c3"
    THEN IF Len(bytes) > 1 /\ bytes[2] = "a9"
         THEN << "e-acute" >> \o toString(Tail(Tail(bytes)))
         ELSE << "U+FFFD" >> \o toString(Tail(bytes))
    ELSE IF Head(bytes) = "a9" THEN << "U+FFFD" >> \o toString(Tail(bytes))
    ELSE << Head(bytes) >> \o toString(Tail(bytes))

\* text.split('\n') on a list of characters
RECURSIVE SplitText(_, _, _)
SplitText(text, cur, acc) ==
    IF text = << >> THEN Append(acc, cur)
    ELSE IF Head(text) = "\n" THEN SplitText(Tail(text), << >>, Append(acc, cur))
    ELSE SplitText(Tail(text), Append(cur, Head(text)), acc)

\* line.trim() is not empty
HasText(line) == \E i \in 1..Len(line) : line[i] # " "

\* the lines of a for loop that skips the blank ones
Handled(lines) == SelectSeq(lines, HasText)

\* the 'data' handler: buffer += data.toString(); lines = buffer.split('\n');
\* buffer = lines.pop() || ''; every line that is not blank is handled
onData(c, chunk) ==
    LET lines == SplitText(c.buffer \o toString(chunk), << >>, << >>)
    IN  [ c EXCEPT !.buffer = lines[Len(lines)],
                   !.emitted = @ \o Handled(SubSeq(lines, 1, Len(lines) - 1)) ]

\* the end of the stream: if (buffer.trim()) the remainder is handled
onClose(c) ==
    [ c EXCEPT !.emitted = @ \o Handled(<< c.buffer >>), !.closed = TRUE ]

\* the lines of a stream that arrives in one chunk
InOneChunk(stream) == Handled(SplitText(toString(stream), << >>, << >>))

ChunkInit ==
    /\ NoSupervisor
    /\ replay = NoReplay
    /\ retry = NoRetry
    /\ pipeline = NoPipeline
    /\ merge = NoMerge
    /\ scheduler = NoScheduler
    /\ journal = NoJournal
    /\ branch = NoBranch
    /\ launch = NoLaunch
    /\ history = NoHistory
    /\ handling = NoHandling
    /\ refresh = NoRefresh
    /\ commitMsg = NoMessage
    /\ pollers = NoPollers
    /\ stopping = NoStopping
    /\ \E stream \in ByteStreams :
         chunks = [ on |-> TRUE, stream |-> stream, sent |-> 0, buffer |-> << >>,
                    emitted |-> << >>, closed |-> FALSE ]

ChunkUnchanged ==
    UNCHANGED << supervisorVars, registry, replay, retry, pipeline, merge, scheduler,
                 journal, branch, launch, history, handling, refresh, commitMsg, pollers, stopping >>

\* the next bytes of the stream arrive, one at least
ChunkData ==
    /\ chunks.on
    /\ \E n \in 1..(Len(chunks.stream) - chunks.sent) :
         chunks' = [ onData(chunks, SubSeq(chunks.stream, chunks.sent + 1, chunks.sent + n))
                       EXCEPT !.sent = @ + n ]
    /\ ChunkUnchanged

\* the stream ends: the child closes, or the driver of the tailed file is gone
ChunkClose ==
    /\ chunks.on
    /\ ~chunks.closed
    /\ chunks.sent = Len(chunks.stream)
    /\ chunks' = onClose(chunks)
    /\ ChunkUnchanged

ChunkNext ==
    \/ ChunkData
    \/ ChunkClose

ChunkSpec == ChunkInit /\ [][ChunkNext]_vars

----------------------------------------------------------------------------
(* Pipeline Driver: generate_branch_name (opencode-loop.sh)                *)

\* the words of a raw text
MaxWords == 2

LowerCase == { "a", "b", "c", "d", "e", "f", "g", "h", "i", "j", "k", "l", "m", "n", "o", "p", "q", "r", "s", "t", "u", "v", "w", "x", "y", "z" }

Digits == { "0", "1", "2", "3", "4", "5", "6", "7", "8", "9" }

\* tr '[:upper:]' '[:lower:]' on the capitals that occur
Lowered(c) == IF c = "F" THEN "f" ELSE IF c = "L" THEN "l" ELSE c

\* the words the raw texts are made of
Vocabulary ==
    { << "F", "i", "x" >>,
      << "t", "h", "e" >>,
      << "l", "o", "g", "i", "n" >>,
      << "4", "2" >>,
      << "1", "2", "3", "4", "5", "6", "7", "8", "9", "0", "a", "b", "c" >>,
      << "b", "e", "f", "o", "r", "e", "h", "a", "n", "d" >>,
      << "!", "!" >> }

\* the text of the example
ExampleText ==
    << "F", "i", "x", " ", "t", "h", "e", " ", "l", "o", "g", "i", "n", " ", "b", "u", "g", " ", "f", "o", "r", " ", "r", "e", "a", "l", " ", "t", "h", "i", "s", " ", "t", "i", "m", "e", "!", "!" >>

\* the words of a list, one space between them
RECURSIVE Spaced(_)
Spaced(ws) ==
    IF ws = << >> THEN << >>
    ELSE IF Len(ws) = 1 THEN ws[1]
    ELSE ws[1] \o << " " >> \o Spaced(Tail(ws))

\* the first line of what cleanup_text_output leaves of the agent's answer;
\* empty when the agent failed
RawTexts ==
    { ExampleText } \cup { Spaced(ws) : ws \in UNION { [ 1..n -> Vocabulary ] : n \in 0..MaxWords } }

\* OPENCODE_LOOP_BRANCH_PREFIX as startRun sets it from config.branchPrefix
Prefixes == { "codeloop", "feat" }

\* the decimal digits of $RANDOM
Randoms == { << "7" >>, << "3", "1", "4", "1", "5" >> }

\* sed 's/[^a-z0-9-]/-/g' after tr
Dashed(text) ==
    [ i \in 1..Len(text) |->
        IF Lowered(text[i]) \in LowerCase \cup Digits \cup { "-" } THEN Lowered(text[i]) ELSE "-" ]

\* sed 's/--*/-/g'
RECURSIVE Squeezed(_)
Squeezed(text) ==
    IF Len(text) < 2 THEN text
    ELSE IF text[1] = "-" /\ text[2] = "-" THEN Squeezed(Tail(text))
    ELSE << text[1] >> \o Squeezed(Tail(text))

\* sed 's/^-*//'
RECURSIVE LeftStripped(_)
LeftStripped(text) ==
    IF text # << >> /\ Head(text) = "-" THEN LeftStripped(Tail(text)) ELSE text

\* sed 's/-*$//'
RECURSIVE RightStripped(_)
RightStripped(text) ==
    IF text # << >> /\ text[Len(text)] = "-"
    THEN RightStripped(SubSeq(text, 1, Len(text) - 1)) ELSE text

\* IFS='-' read -r -a _branch_tokens
RECURSIVE ReadTokens(_, _, _)
ReadTokens(text, cur, acc) ==
    IF text = << >> THEN (IF cur = << >> /\ acc = << >> THEN acc ELSE Append(acc, cur))
    ELSE IF Head(text) = "-" THEN ReadTokens(Tail(text), << >>, Append(acc, cur))
    ELSE ReadTokens(Tail(text), Append(cur, Head(text)), acc)

\* [[ "$token" =~ ^[0-9]+$ ]]
IsNumeric(token) == token # << >> /\ \A i \in 1..Len(token) : token[i] \in Digits

\* the words of the case statement
StopWords ==
    { << "t", "h", "e" >>,
      << "a" >>,
      << "a", "n" >>,
      << "a", "n", "d" >>,
      << "o", "r" >>,
      << "f", "o", "r" >>,
      << "f", "r", "o", "m" >>,
      << "w", "i", "t", "h" >>,
      << "t", "h", "a", "t" >>,
      << "t", "h", "i", "s" >>,
      << "i", "n", "t", "o" >>,
      << "a", "f", "t", "e", "r" >>,
      << "b", "e", "f", "o", "r", "e" >>,
      << "w", "h", "e", "n" >>,
      << "w", "h", "i", "l", "e" >>,
      << "o", "p", "e", "n", "c", "o", "d", "e" >>,
      << "d", "e", "t", "a", "i", "l", "e", "d" >>,
      << "o", "u", "t", "p", "u", "t" >>,
      << "r", "u", "n" >> }

\* the for loop over the tokens: compact and count
RECURSIVE Compacted(_, _, _)
Compacted(tokens, compact, count) ==
    IF tokens = << >> \/ count >= 3 THEN compact
    ELSE LET token == Head(tokens)
         IN  IF token = << >> \/ IsNumeric(token) \/ token \in StopWords
             THEN Compacted(Tail(tokens), compact, count)
             ELSE Compacted(Tail(tokens),
                            (IF compact = << >> THEN << >> ELSE compact \o << "-" >>)
                              \o SubSeq(token, 1, IF Len(token) < 10 THEN Len(token) ELSE 10),
                            count + 1)

\* generate_branch_name from the agent's answer on
generate_branch_name(raw, prefix, random) ==
    LET cleaned == RightStripped(LeftStripped(Squeezed(Dashed(raw))))
        compact == Compacted(ReadTokens(cleaned, << >>, << >>), << >>, 0)
        cut     == RightStripped(SubSeq(compact, 1, IF Len(compact) < 28 THEN Len(compact) ELSE 28))
    IN  [ prefix |-> "opencode",
          slug   |-> IF cut = << >> THEN << "t", "a", "s", "k", "-" >> \o random ELSE cut ]

BranchInit ==
    /\ NoSupervisor
    /\ replay = NoReplay
    /\ retry = NoRetry
    /\ pipeline = NoPipeline
    /\ merge = NoMerge
    /\ scheduler = NoScheduler
    /\ journal = NoJournal
    /\ chunks = NoChunks
    /\ launch = NoLaunch
    /\ history = NoHistory
    /\ handling = NoHandling
    /\ refresh = NoRefresh
    /\ commitMsg = NoMessage
    /\ pollers = NoPollers
    /\ stopping = NoStopping
    /\ \E raw \in RawTexts, prefix \in Prefixes, random \in Randoms :
         branch = [ on |-> TRUE, raw |-> raw, prefix |-> prefix, random |-> random,
                    done |-> FALSE, BRANCH_NAME |-> [ prefix |-> "", slug |-> << >> ] ]

\* the driver names the branch
BranchGenerate ==
    /\ branch.on
    /\ ~branch.done
    /\ branch' = [ branch EXCEPT
                     !.done = TRUE,
                     !.BRANCH_NAME = generate_branch_name(branch.raw, branch.prefix,
                                                          branch.random) ]
    /\ UNCHANGED << supervisorVars, registry, replay, retry, pipeline, merge, scheduler,
                    journal, chunks, launch, history, handling, refresh, commitMsg, pollers, stopping >>

BranchNext == BranchGenerate

BranchSpec == BranchInit /\ [][BranchNext]_vars

----------------------------------------------------------------------------
(* The objects behind a pull request operation: activeRuns holds the      *)
(* RunState object of a run of this session, persistedRuns holds the copy  *)
(* persistRunState made last, and getRunById hands out one or the other    *)
(* (main/script-runner.ts)                                                 *)

\* the operations called in one session
MaxCalls == 2

\* the RunState objects that can be referenced at one time
MaxObjects == 4

Addresses == 1..MaxObjects

\* no object: what Map.get answers for a run the map does not hold
NoAddress == 0

NoObject == [ prUrl |-> NoUrl, prMergeStatus |-> "free" ]

NoCall ==
    [ op |-> "none", pc |-> "idle", phase |-> "none", state |-> NoAddress, inner |-> NoAddress,
      result |-> "none", seen |-> "none" ]

\* the objects something still refers to
Referenced(h) == { h.persistedRuns, h.activeRuns, h.task.state, h.task.inner } \ { NoAddress }

\* the objects nothing refers to any more are gone
Collect(h) ==
    [ h EXCEPT !.heap = [ a \in Addresses |-> IF a \in Referenced(h) THEN h.heap[a] ELSE NoObject ] ]

\* getRunById: the object of activeRuns if there is one, else the one of persistedRuns
getRunById(h) == IF h.activeRuns # NoAddress THEN h.activeRuns ELSE h.persistedRuns

\* updatePrState: Object.assign on the object at address a
updatePrState(h, a, status) == [ h EXCEPT !.heap[a].prMergeStatus = status ]

\* persistRunState: persistedRuns gets a new object, a copy of the one at address a
persistClone(h, a) ==
    LET new == CHOOSE n \in Addresses \ Referenced(h) :
                   \A m \in Addresses \ Referenced(h) : n <= m
    IN  [ h EXCEPT !.heap[new] = h.heap[a], !.persistedRuns = new ]

\* updatePrState, sendToRenderer and persistRunState, as every step does them
Assigned(h, a, status) == persistClone(updatePrState(h, a, status), a)

\* the function returns and lets go of its object
Returned(h, result) ==
    [ h EXCEPT !.task.pc = "done", !.task.result = result, !.task.state = NoAddress ]

\* refreshRunPrStatus up to its await: it asks getRunById for the object
\* itself; the caller has tested prUrl, which no operation changes
refreshBegun(h, phase) ==
    LET inner == getRunById(h)
        h1    == [ h EXCEPT !.task.inner = inner, !.task.pc = "refresh", !.task.phase = phase ]
    IN  Assigned(h1, inner, "checking")

\* refreshRunPrStatus from its await on
refreshEnded(h, view) ==
    LET status == IF view = "error" THEN "failed"
                  ELSE applyPrView(h.heap[h.task.inner] @@ [ prMergeMessage |-> "null", refs |-> FALSE ],
                                   view).prMergeStatus
        h1     == Assigned(h, h.task.inner, status)
    IN  [ h1 EXCEPT !.task.inner = NoAddress,
                    !.task.seen = IF h.task.phase = "merged" THEN view ELSE @ ]

\* executeMerge up to its await, on the object its caller passed
executeMergeBegun(h) ==
    IF h.heap[h.task.state].prUrl = NoUrl THEN Returned(h, "fail")
    ELSE [ Assigned(h, h.task.state, "auto-merging") EXCEPT !.task.pc = "merging" ]

\* executeMerge after its refresh: it tests the object its caller passed
executeMergeRefreshed(h, view) ==
    IF view = "error" \/ h.heap[h.task.state].prMergeStatus # "merged"
    THEN Returned(Assigned(h, h.task.state, "auto-merging"), "ok")
    ELSE Returned(h, "ok")

\* the catch blocks of executeMerge and of resolveAndMergeRunPr
failedOn(h) == Returned(Assigned(h, h.task.state, "failed"), "fail")

\* the function that awaited refreshRunPrStatus goes on with its own object
Resumed(h, view) ==
    LET status == h.heap[h.task.state].prMergeStatus
    IN  IF h.task.phase = "merged" THEN executeMergeRefreshed(h, view)
        ELSE IF h.task.phase = "resolved"
        THEN IF status = "conflict" THEN failedOn(h) ELSE executeMergeBegun(h)
        ELSE IF h.task.op = "mergeRunPr"
        THEN IF status = "conflict" THEN Returned(h, "fail") ELSE executeMergeBegun(h)
        ELSE IF view = "error" /\ status = "failed" THEN Returned(h, "fail")
        ELSE IF status # "conflict" THEN executeMergeBegun(h)
        ELSE [ Assigned(h, h.task.state, "checking") EXCEPT !.task.pc = "resolving" ]

HistoryInit ==
    /\ NoSupervisor
    /\ replay = NoReplay
    /\ retry = NoRetry
    /\ pipeline = NoPipeline
    /\ merge = NoMerge
    /\ scheduler = NoScheduler
    /\ journal = NoJournal
    /\ chunks = NoChunks
    /\ branch = NoBranch
    /\ launch = NoLaunch
    /\ handling = NoHandling
    /\ refresh = NoRefresh
    /\ commitMsg = NoMessage
    /\ pollers = NoPollers
    /\ stopping = NoStopping
    /\ \E inSession \in BOOLEAN, url \in { NoUrl, PrUrl } :
         LET object == [ prUrl |-> url, prMergeStatus |-> IF url = NoUrl THEN "none" ELSE "checking" ]
         IN  history = [ on |-> TRUE,
                         heap |-> [ a \in Addresses |->
                                      IF a = 1 \/ (a = 2 /\ inSession) THEN object ELSE NoObject ],
                         persistedRuns |-> IF inSession THEN 2 ELSE 1,
                         activeRuns |-> IF inSession THEN 1 ELSE NoAddress,
                         task |-> NoCall,
                         calls |-> 0 ]

HistoryUnchanged ==
    UNCHANGED << supervisorVars, registry, replay, retry, pipeline, merge, scheduler,
                 journal, chunks, branch, launch, handling, refresh, commitMsg, pollers, stopping >>

\* mergeRunPr or resolveAndMergeRunPr is called, up to its first await
HistoryCall(op) ==
    /\ history.on
    /\ history.calls < MaxCalls
    /\ history.task.pc \in { "idle", "done" }
    /\ LET h == [ history EXCEPT !.task = [ NoCall EXCEPT !.op = op, !.state = getRunById(history) ],
                                 !.calls = @ + 1 ]
       IN  history' = Collect(IF h.heap[h.task.state].prUrl = NoUrl THEN Returned(h, "fail")
                              ELSE refreshBegun(h, "first"))
    /\ HistoryUnchanged

\* gh pr view ends, and the function that awaited the refresh goes on
HistoryViewReturns ==
    \E view \in Views :
        /\ history.on
        /\ history.task.pc = "refresh"
        /\ history' = Collect(Resumed(refreshEnded(history, view), view))
        /\ HistoryUnchanged

\* gh pr merge ends
HistoryMergeReturns ==
    \E ok \in BOOLEAN :
        /\ history.on
        /\ history.task.pc = "merging"
        /\ history' = Collect(IF ok THEN refreshBegun(history, "merged") ELSE failedOn(history))
        /\ HistoryUnchanged

\* resolvePrConflictsInTempClone ends
HistoryResolveReturns ==
    \E ok \in BOOLEAN :
        /\ history.on
        /\ history.task.pc = "resolving"
        /\ history' = Collect(IF ok THEN refreshBegun(history, "resolved") ELSE failedOn(history))
        /\ HistoryUnchanged

HistoryNext ==
    \/ \E op \in { "mergeRunPr", "resolveAndMergeRunPr" } : HistoryCall(op)
    \/ HistoryViewReturns
    \/ HistoryMergeReturns
    \/ HistoryResolveReturns

HistorySpec == HistoryInit /\ [][HistoryNext]_vars

----------------------------------------------------------------------------
(* The driver's main: parse_args, the checks, the detached re-execution    *)
(* of background mode (opencode-loop.sh)                                   *)

\* the prompts given on the command line; "" is none
Prompts == { "", "fix the login bug", "add a test" }

\* what generate_branch_name can make of a prompt
GeneratedNames == { "opencode/fix-login-bug", "opencode/task-1" }

\* a branch name handed over in OPENCODE_LOOP_BRANCH_NAME
GivenName == "feat/x"

\* the processes: the one the user or the application starts, and the one it re-executes
Launcher == 1
Detached == 2

NoProcess == [ pc |-> "none" ]

\* a process of the script that has just been started: its arguments, its
\* environment, and the script's globals at their initial values
Started(args, env) ==
    [ pc |-> "start", args |-> args, env |-> env, code |-> NotYet, stdout |-> << >>,
      RUN_MODE |-> "bg", LOG_OPENCODE_DETAIL |-> "0", USER_PROMPT |-> "", BRANCH_NAME |-> "",
      LOG_FILE |-> "" ]

\* a line on standard output: an error message, or the bootstrap line with
\* the log file and the process id it announces
ErrorLine(text) == [ text |-> text, log |-> "", pid |-> 0 ]
BootstrapLine(log, pid) == [ text |-> "Running in background.", log |-> log, pid |-> pid ]

\* exit n, after the line the script prints before it
Exited(proc, line, code) ==
    [ proc EXCEPT !.pc = "exited", !.code = code, !.stdout = Append(@, line) ]

\* parse_args
parse_args(proc) ==
    [ proc EXCEPT
        !.RUN_MODE = IF proc.args.mode = "none" THEN @ ELSE proc.args.mode,
        !.LOG_OPENCODE_DETAIL = IF proc.args.logOpencode THEN "1" ELSE @,
        !.USER_PROMPT = proc.args.prompt ]

\* load_config: the override of LOG_OPENCODE_DETAIL by the environment
load_config_detail(proc) ==
    [ proc EXCEPT
        !.LOG_OPENCODE_DETAIL = IF proc.env.LOG_OPENCODE_DETAIL # "" THEN proc.env.LOG_OPENCODE_DETAIL
                                ELSE @ ]

\* setup_target_paths: $WORKSPACE_ROOT/<branch with - for />/opencode-loop.log
setup_target_paths(proc) ==
    [ proc EXCEPT
        !.LOG_FILE = IF proc.BRANCH_NAME = GivenName THEN "/w/feat-x/opencode-loop.log"
                     ELSE IF proc.BRANCH_NAME = "opencode/task-1"
                     THEN "/w/opencode-task-1/opencode-loop.log"
                     ELSE "/w/opencode-fix-login-bug/opencode-loop.log" ]

\* main from parse_args to setup_target_paths
mainChecked(proc, generated) ==
    LET parsed == load_config_detail(parse_args(proc))
    IN  IF parsed.USER_PROMPT = ""
        THEN Exited(parsed, ErrorLine("Error: prompt is required unless using --init or --dry-run"), 1)
        ELSE LET prompted == [ parsed EXCEPT
                                 !.USER_PROMPT = IF parsed.env.PROMPT # "" THEN parsed.env.PROMPT ELSE @ ]
                 named    == [ prompted EXCEPT
                                 !.BRANCH_NAME = IF prompted.env.BRANCH_NAME # ""
                                                 THEN prompted.env.BRANCH_NAME ELSE generated ]
             IN  [ setup_target_paths(named) EXCEPT !.pc = "named" ]

\* the process nohup env ... "$0" --fg --config "$CONFIG_FILE" starts
Reexecuted(proc) ==
    Started([ mode |-> "fg", logOpencode |-> FALSE, prompt |-> "" ],
            [ BG |-> "1", PROMPT |-> proc.USER_PROMPT, BRANCH_NAME |-> proc.BRANCH_NAME,
              LOG_OPENCODE_DETAIL |-> proc.LOG_OPENCODE_DETAIL ])

\* main goes to the background
GoesToBackground(proc) == proc.RUN_MODE = "bg" /\ proc.env.BG # "1"

LaunchInit ==
    /\ NoSupervisor
    /\ replay = NoReplay
    /\ retry = NoRetry
    /\ pipeline = NoPipeline
    /\ merge = NoMerge
    /\ scheduler = NoScheduler
    /\ journal = NoJournal
    /\ chunks = NoChunks
    /\ branch = NoBranch
    /\ history = NoHistory
    /\ handling = NoHandling
    /\ refresh = NoRefresh
    /\ commitMsg = NoMessage
    /\ pollers = NoPollers
    /\ stopping = NoStopping
    /\ \E mode \in { "bg", "fg", "none" }, logOpencode \in BOOLEAN, prompt \in Prompts,
          given \in { "", GivenName }, detail \in { "", "1" } :
         launch = [ on |-> TRUE,
                    procs |-> << Started([ mode |-> mode, logOpencode |-> logOpencode,
                                           prompt |-> prompt ],
                                         [ BG |-> "0", PROMPT |-> "", BRANCH_NAME |-> given,
                                           LOG_OPENCODE_DETAIL |-> detail ]),
                                 NoProcess >>,
                    files |-> << >>,
                    made  |-> { } ]

LaunchUnchanged ==
    UNCHANGED << supervisorVars, registry, replay, retry, pipeline, merge, scheduler,
                 journal, chunks, branch, history, handling, refresh, commitMsg, pollers, stopping >>

\* what preflight_checks finds: all is well, a tool is not installed, or the
\* repository has no remote origin
Preflights == { "ok", "tool", "remote" }

\* the line preflight_checks prints before exit 1
PreflightError(found) ==
    IF found = "tool" THEN ErrorLine("Error: git is not installed.")
    ELSE ErrorLine("Error: No remote origin configured for this repository.")

\* a main that makes the workspace directory before it tests anything
LaunchChecksLate(p) ==
    /\ launch.on
    /\ launch.procs[p].pc = "start"
    /\ \E found \in Preflights, generated \in GeneratedNames :
         launch' = [ launch EXCEPT
                       !.procs[p] = IF found = "ok" THEN mainChecked(@, generated)
                                    ELSE Exited(@, PreflightError(found), 1),
                       !.made = @ \cup { p } ]
    /\ LaunchUnchanged

\* main up to setup_target_paths; preflight_checks and the prompt test can
\* end the script
LaunchChecks(p) ==
    /\ launch.on
    /\ launch.procs[p].pc = "start"
    /\ \E found \in Preflights, generated \in GeneratedNames :
         launch' = [ launch EXCEPT
                       !.procs[p] = IF found = "ok" THEN mainChecked(@, generated)
                                    ELSE Exited(@, PreflightError(found), 1) ]
    /\ LaunchUnchanged

\* the background branch of main: the workspace directory is made, the
\* script is started again, detached, the bootstrap line is printed and the
\* launcher exits 0
LaunchDetach(p) ==
    /\ launch.on
    /\ launch.procs[p].pc = "named"
    /\ GoesToBackground(launch.procs[p])
    /\ launch' = [ launch EXCEPT
                     !.procs[Detached] = Reexecuted(launch.procs[p]),
                     !.procs[p] = Exited(@, BootstrapLine(launch.procs[p].LOG_FILE, Detached), 0),
                     !.made = @ \cup { p } ]
    /\ LaunchUnchanged

\* setup_logging and the INIT lines
LaunchLogging(p) ==
    /\ launch.on
    /\ launch.procs[p].pc = "named"
    /\ ~GoesToBackground(launch.procs[p])
    /\ launch' = [ launch EXCEPT
                     !.procs[p].pc = "pipeline",
                     !.files = Append(@, [ file |-> launch.procs[p].LOG_FILE, phase |-> "INIT",
                                           by |-> p ]),
                     !.made = @ \cup { p } ]
    /\ LaunchUnchanged

\* run_pipeline, which writes the lines of its phases, and the exit
LaunchPipeline(p) ==
    /\ launch.on
    /\ launch.procs[p].pc = "pipeline"
    /\ \E code \in { 0, 1 } :
         launch' = [ launch EXCEPT
                       !.procs[p].pc = "exited",
                       !.procs[p].code = code,
                       !.files = Append(@, [ file |-> launch.procs[p].LOG_FILE, phase |-> "CLONE",
                                             by |-> p ]) ]
    /\ LaunchUnchanged

LaunchNext ==
    \E p \in { Launcher, Detached } :
        \/ LaunchChecks(p)
        \/ LaunchDetach(p)
        \/ LaunchLogging(p)
        \/ LaunchPipeline(p)

LaunchSpec == LaunchInit /\ [][LaunchNext]_vars

----------------------------------------------------------------------------
(* handleLogEntry on any phase map (main/script-runner.ts) *)

\* the entries handled in one behaviour
MaxHandled == 1

\* the phase maps a run can have: an initial map with one phase in any status
PriorMaps ==
    { SetPhase(createInitialPhases(skipPlan, skipPr), p, status) :
        skipPlan \in BOOLEAN, skipPr \in BOOLEAN, p \in PhaseSet, status \in PhaseStatus }

\* the lines a phase begins and ends with
PhaseLines ==
    { StructuredLine(p, m) : p \in PhaseSet, m \in { MsgStarting, MsgCompleted } }
        \cup { StructuredLine("PLAN", MsgCompletedPlan) }

HandleInit ==
    /\ NoSupervisor
    /\ replay = NoReplay
    /\ retry = NoRetry
    /\ pipeline = NoPipeline
    /\ merge = NoMerge
    /\ scheduler = NoScheduler
    /\ journal = NoJournal
    /\ chunks = NoChunks
    /\ branch = NoBranch
    /\ launch = NoLaunch
    /\ history = NoHistory
    /\ refresh = NoRefresh
    /\ commitMsg = NoMessage
    /\ pollers = NoPollers
    /\ stopping = NoStopping
    /\ \E phases \in PriorMaps :
         handling = [ on |-> TRUE,
                      state |-> [ NewRunState(FALSE, FALSE, FALSE, FALSE) EXCEPT !.phases = phases ],
                      entry |-> NoEntry,
                      count |-> 0 ]

\* const entry = parseLine(line); if (entry) handleLogEntry(runId, entry, state)
HandleEntry ==
    /\ handling.on
    /\ handling.count < MaxHandled
    /\ \E raw \in PhaseLines, now \in Clock, planFile \in BOOLEAN :
         handling' = [ handling EXCEPT
                         !.state = ParseAndHandle(@, raw, now, planFile),
                         !.entry = parseLine(raw, now),
                         !.count = @ + 1 ]
    /\ UNCHANGED << supervisorVars, registry, replay, retry, pipeline, merge, scheduler,
                    journal, chunks, branch, launch, history, refresh, commitMsg, pollers, stopping >>

HandleNext == HandleEntry

HandleSpec == HandleInit /\ [][HandleNext]_vars

----------------------------------------------------------------------------
(* refreshRunPrStatus with all the fields of the answer of gh pr view      *)
(* (main/script-runner.ts)                                                 *)

\* the refreshes of one behaviour
MaxRefreshes == 1

\* absent: the field is missing from the answer, or null in the run
Absent == ""

\* what gh pr view --json url,title,number,state,mergeable,headRefName,baseRefName answers
GhPrViews ==
    [ url : { Absent, PrUrl }, title : { Absent, "Fix the login" }, number : { Absent, "7" },
      state : { "OPEN", "CLOSED", "MERGED" },
      mergeable : { "MERGEABLE", "CONFLICTING", "UNKNOWN" },
      headRefName : { Absent, "opencode/fix-login" }, baseRefName : { Absent, "main" } ]

\* the command fails, or its output is not JSON
NoView ==
    [ url |-> Absent, title |-> Absent, number |-> Absent, state |-> "none", mergeable |-> "none",
      headRefName |-> Absent, baseRefName |-> Absent ]

\* a || b
Or(a, b) == IF a # Absent THEN a ELSE b

\* an applyPrView that looks at the mergeable flag first
applyGhPrViewFlagFirst(state, view) ==
    [ state EXCEPT
        !.prUrl = Or(view.url, state.prUrl),
        !.prTitle = Or(view.title, state.prTitle),
        !.prNumber = Or(view.number, state.prNumber),
        !.prHeadRef = Or(view.headRefName, state.prHeadRef),
        !.prBaseRef = Or(view.baseRefName, state.prBaseRef),
        !.prMergeStatus =
            IF view.mergeable = "CONFLICTING" THEN "conflict"
            ELSE IF view.state = "MERGED" THEN "merged"
            ELSE IF view.mergeable = "MERGEABLE" THEN "ready"
            ELSE "checking",
        !.prMergeMessage =
            IF view.mergeable = "CONFLICTING" THEN "Pull request has merge conflicts."
            ELSE IF view.state = "MERGED" THEN "Pull request has been merged."
            ELSE IF view.mergeable = "MERGEABLE" THEN "Pull request is mergeable."
            ELSE "Mergeability is still being calculated by GitHub." ]

\* applyPrView, field by field; Number.isFinite(view.number) holds when the
\* answer has a number
applyGhPrView(state, view) ==
    [ state EXCEPT
        !.prUrl = Or(view.url, state.prUrl),
        !.prTitle = Or(view.title, state.prTitle),
        !.prNumber = Or(view.number, state.prNumber),
        !.prHeadRef = Or(view.headRefName, state.prHeadRef),
        !.prBaseRef = Or(view.baseRefName, state.prBaseRef),
        !.prMergeStatus =
            IF view.state = "MERGED" THEN "merged"
            ELSE IF view.mergeable = "CONFLICTING" THEN "conflict"
            ELSE IF view.mergeable = "MERGEABLE" THEN "ready"
            ELSE "checking",
        !.prMergeMessage =
            IF view.state = "MERGED" THEN "Pull request has been merged."
            ELSE IF view.mergeable = "CONFLICTING" THEN "Pull request has merge conflicts."
            ELSE IF view.mergeable = "MERGEABLE" THEN "Pull request is mergeable."
            ELSE "Mergeability is still being calculated by GitHub." ]

\* the runs a refresh is asked for: without a pull request, with one that
\* was never viewed, with one whose fields an earlier refresh has filled
RefreshedRuns ==
    { [ prUrl |-> Absent, prTitle |-> Absent, prNumber |-> Absent, prHeadRef |-> Absent,
        prBaseRef |-> Absent, prMergeStatus |-> "none", prMergeMessage |-> Absent ],
      [ prUrl |-> "https://github.com/o/r/pull/9", prTitle |-> Absent, prNumber |-> Absent,
        prHeadRef |-> Absent, prBaseRef |-> Absent, prMergeStatus |-> "checking",
        prMergeMessage |-> "Pull request created. Checking merge status..." ],
      [ prUrl |-> "https://github.com/o/r/pull/9", prTitle |-> "Old title", prNumber |-> "9",
        prHeadRef |-> "opencode/old", prBaseRef |-> "develop", prMergeStatus |-> "ready",
        prMergeMessage |-> "Pull request is mergeable." ] }

NoResult == [ ok |-> FALSE, error |-> Absent ]

\* the messages of the errors fetchPrView throws
RefreshErrors == { "gh: command failed", "Unexpected end of JSON input" }

\* `Failed to refresh PR status: ${message}`
FailedToRefresh(message) ==
    IF message = "gh: command failed" THEN "Failed to refresh PR status: gh: command failed"
    ELSE "Failed to refresh PR status: Unexpected end of JSON input"

RefreshInit ==
    /\ NoSupervisor
    /\ replay = NoReplay
    /\ retry = NoRetry
    /\ pipeline = NoPipeline
    /\ merge = NoMerge
    /\ scheduler = NoScheduler
    /\ journal = NoJournal
    /\ chunks = NoChunks
    /\ branch = NoBranch
    /\ launch = NoLaunch
    /\ history = NoHistory
    /\ handling = NoHandling
    /\ commitMsg = NoMessage
    /\ pollers = NoPollers
    /\ stopping = NoStopping
    /\ \E state \in RefreshedRuns :
         refresh = [ on |-> TRUE, state |-> state, pc |-> "idle", view |-> NoView,
                     result |-> NoResult, count |-> 0 ]

RefreshUnchanged ==
    UNCHANGED << supervisorVars, registry, replay, retry, pipeline, merge, scheduler,
                 journal, chunks, branch, launch, history, handling, commitMsg, pollers, stopping >>

\* refreshRunPrStatus up to its await
RefreshCalled ==
    /\ refresh.on
    /\ refresh.pc \in { "idle", "done" }
    /\ refresh.count < MaxRefreshes
    /\ refresh' =
         IF refresh.state.prUrl = Absent
         THEN [ refresh EXCEPT !.pc = "done", !.view = NoView, !.count = @ + 1,
                               !.result = [ ok |-> FALSE,
                                            error |-> "No pull request exists for this run yet." ] ]
         ELSE [ refresh EXCEPT !.pc = "awaiting", !.view = NoView, !.count = @ + 1,
                               !.result = NoResult,
                               !.state.prMergeStatus = "checking",
                               !.state.prMergeMessage = "Checking pull request status..." ]
    /\ RefreshUnchanged

\* fetchPrView returns the answer of gh pr view
RefreshAnswered ==
    \E view \in GhPrViews :
        /\ refresh.on
        /\ refresh.pc = "awaiting"
        /\ refresh' = [ refresh EXCEPT !.pc = "done", !.view = view,
                                       !.state = applyGhPrView(@, view),
                                       !.result = [ ok |-> TRUE, error |-> Absent ] ]
        /\ RefreshUnchanged

\* fetchPrView throws: the command failed or timed out, or its output is not JSON
RefreshThrown ==
    \E message \in RefreshErrors :
        /\ refresh.on
        /\ refresh.pc = "awaiting"
        /\ refresh' = [ refresh EXCEPT
                          !.pc = "done",
                          !.state.prMergeStatus = "failed",
                          !.state.prMergeMessage = FailedToRefresh(message),
                          !.result = [ ok |-> FALSE, error |-> message ] ]
        /\ RefreshUnchanged

RefreshNext ==
    \/ RefreshCalled
    \/ RefreshAnswered
    \/ RefreshThrown

RefreshSpec == RefreshInit /\ [][RefreshNext]_vars

----------------------------------------------------------------------------
(* The requests on the pull request of a run whose output is still parsed *)

\* the lines and the close of the child that are handled while requests on
\* the pull request are in flight
MaxEvents == 2

\* the requests the renderer makes meanwhile
MaxRequests == 1

\* what the driver writes in this part of the run
FrameLines == { StructuredLine("PR", MsgStarting), StructuredLine("DONE", MsgPrCreated) }

\* the fields of a run that are not about its pull request
Framed(state) ==
    [ status |-> state.status, currentPhase |-> state.currentPhase,
      phases |-> state.phases, logs |-> state.logs ]

\* the run startRun registers, with the head and base references the
\* refresh stores
FrameRun(autoMerge) ==
    LET state == NewRunState(FALSE, FALSE, FALSE, autoMerge)
    IN  [ status |-> state.status, currentPhase |-> state.currentPhase,
          phases |-> state.phases, logs |-> state.logs, prUrl |-> state.prUrl,
          prMergeStatus |-> state.prMergeStatus, prMergeMessage |-> state.prMergeMessage,
          finishedAt |-> state.finishedAt, pid |-> state.pid, planText |-> state.planText,
          runMode |-> state.runMode, logFilePath |-> state.logFilePath,
          logFileOffset |-> state.logFileOffset, autoMerge |-> state.autoMerge,
          refs |-> FALSE ]

\* a request is in flight
InFlight == \E i \in Slots : merge.tasks[i].pc \notin { "idle", "done" }

FrameInit ==
    /\ NoSupervisor
    /\ replay = NoReplay
    /\ retry = NoRetry
    /\ pipeline = NoPipeline
    /\ scheduler = NoScheduler
    /\ journal = NoJournal
    /\ RestOff
    /\ \E auto \in BOOLEAN, announced \in BOOLEAN :
         merge = [ on |-> TRUE,
                   state |-> IF announced
                             THEN HandleLines(FrameRun(auto),
                                              << << TextAtom(StructuredLine("DONE", MsgPrCreated)) >> >>,
                                              "T1", FALSE)
                             ELSE FrameRun(auto),
                   tasks |-> [ i \in Slots |-> NoTask ],
                   fs |-> { },
                   calls |-> 0,
                   events |-> 0,
                   during |-> FALSE ]

\* one of the exported functions is called from the renderer, one request
\* at a time
FrameCalled ==
    \E i \in Slots, op \in Operations \ { "maybeAutoMergeRun" } :
        /\ merge.calls < MaxRequests
        /\ ~InFlight
        /\ MergeCall(i, op)

\* child.stdout.on('data') with one whole line
FrameLine ==
    \E line \in FrameLines :
        /\ merge.on
        /\ merge.events < MaxEvents
        /\ merge.state.status = "running"
        /\ merge' = [ merge EXCEPT
                        !.state = HandleLines(@, << << TextAtom(line) >> >>, "T1", FALSE),
                        !.events = @ + 1,
                        !.during = @ \/ InFlight ]
        /\ MergeUnchanged

\* child.on('close') of the foreground run: the status is set and
\* maybeAutoMergeRun is called, which runs up to its await
FrameClose ==
    \E i \in Slots, code \in ExitCodes :
        /\ merge.on
        /\ merge.events < MaxEvents
        /\ merge.state.status = "running"
        /\ Free(i)
        /\ \A j \in 1..(i - 1) : ~Free(j)
        /\ LET closed == CloseForeground(merge.state, code)
               begun  == closed.status = "completed" /\ closed.prUrl # NoUrl /\ closed.autoMerge
           IN  merge' = [ merge EXCEPT
                            !.state = closed,
                            !.tasks[i] = IF begun
                                         THEN [ NoTask EXCEPT !.op = "maybeAutoMergeRun",
                                                              !.pc = "refresh", !.phase = "first" ]
                                         ELSE @,
                            !.events = @ + 1,
                            !.during = @ \/ InFlight ]
        /\ MergeUnchanged

FrameNext ==
    \/ FrameCalled
    \/ ViewReturns
    \/ MergeReturns
    \/ ResolveStepped
    \/ FrameLine
    \/ FrameClose

FrameSpec == FrameInit /\ [][FrameNext]_vars

----------------------------------------------------------------------------
(* Two runs side by side: their records, drivers, pipes and log files *)

Runs == { "A", "B" }

\* the lines a driver writes after setup_logging
MaxWritten == 2

\* the path no driver has made a log file at, or whose file a clone step removed
NoFile == ""

\* log "INIT" "Starting OpenCode loop", the first line of every driver
FirstLine == << TextAtom(StructuredLine("INIT", MsgStarting)) >>

\* setup_target_paths: the log file of a branch name
LogFileOf(name) == name

\* the record startRun registers
FleetRun(mode) == NewRunState(FALSE, FALSE, mode = "background", FALSE)

\* poll(): the lines beyond the offset are parsed and handled, and a run whose
\* driver has ended is finalized
FleetPolled(state, content, dead) ==
    LET r  == IF content = << NoFile >>
              THEN [ chunk |-> << >>, nextOffset |-> state.logFileOffset ]
              ELSE readNewLogChunk(content, state.logFileOffset)
        s0 == [ state EXCEPT !.logFileOffset = r.nextOffset ]
        s1 == HandleLines(s0, r.chunk, "T1", FALSE)
    IN  IF dead THEN finalizeBackgroundRun(s1) ELSE s1

FleetInit ==
    /\ NoSupervisor
    /\ replay = NoReplay
    /\ retry = NoRetry
    /\ pipeline = NoPipeline
    /\ merge = NoMerge
    /\ scheduler = NoScheduler
    /\ journal = NoJournal
    /\ chunks = NoChunks
    /\ branch = NoBranch
    /\ history = NoHistory
    /\ handling = NoHandling
    /\ refresh = NoRefresh
    /\ commitMsg = NoMessage
    /\ pollers = NoPollers
    /\ stopping = NoStopping
    /\ launch = [ on      |-> TRUE,
                  runs    |-> [ r \in Runs |-> FleetRun("foreground") ],
                  driver  |-> [ r \in Runs |-> "none" ],
                  name    |-> [ r \in Runs |-> "" ],
                  polling |-> [ r \in Runs |-> FALSE ],
                  written |-> [ r \in Runs |-> 0 ],
                  pipe    |-> [ r \in Runs |-> << >> ],
                  tee     |-> [ r \in Runs |-> NoFile ],
                  files   |-> [ f \in GeneratedNames |-> NoFile ],
                  content |-> [ r \in Runs |-> << >> ] ]

\* what fs reads at a path: the content of the file the path names, each file
\* being known by the driver that made it
ContentAt(path) ==
    IF launch.files[path] = NoFile THEN << NoFile >> ELSE launch.content[launch.files[path]]

\* startRun, and main of the script up to setup_target_paths. In background
\* mode the launcher starts the detached driver and prints the bootstrap
\* line; the stdout handler stores the log file, starts the poller and polls
\* once. The detached driver is given no prompt argument and ends at main's
\* prompt test (see Reexecuted, mainChecked).
FleetStart(r, name, mode) ==
    /\ launch.on
    /\ launch.driver[r] = "none"
    /\ LET state == [ FleetRun(mode) EXCEPT !.logFilePath = LogFileOf(name), !.pid = DriverPid ]
       IN  launch' = [ launch EXCEPT
                         !.driver[r] = IF mode = "background" THEN "detached" ELSE "started",
                         !.name[r] = name,
                         !.polling[r] = mode = "background",
                         !.runs[r] = IF mode = "background"
                                     THEN FleetPolled(state, ContentAt(LogFileOf(name)), FALSE)
                                     ELSE FleetRun(mode) ]
    /\ LaunchUnchanged

FleetStarted ==
    \E r \in Runs, name \in GeneratedNames, mode \in { "foreground", "background" } :
        FleetStart(r, name, mode)

\* setup_logging of a driver that passed main's tests: mkdir -p, touch, and a
\* tee -a that opens the file the path names, made by this driver if there
\* is none
FleetLogging(r) ==
    /\ launch.on
    /\ launch.driver[r] = "started"
    /\ LET f      == LogFileOf(launch.name[r])
           opened == IF launch.files[f] = NoFile THEN r ELSE launch.files[f]
       IN  launch' = [ launch EXCEPT
                         !.driver[r] = "logging",
                         !.files[f] = opened,
                         !.tee[r] = opened ]
    /\ LaunchUnchanged

FleetLogs == \E r \in Runs : FleetLogging(r)

\* log: tee appends the line to the file it opened, removed or not, and
\* passes it on to the pipe of the run
FleetWrite(r) ==
    /\ launch.on
    /\ launch.driver[r] \in { "logging", "cloned" }
    /\ launch.written[r] < MaxWritten
    /\ launch' = [ launch EXCEPT
                     !.written[r] = @ + 1,
                     !.pipe[r] = Append(@, FirstLine),
                     !.content[launch.tee[r]] = Append(@, FirstLine) ]
    /\ LaunchUnchanged

FleetWrites == \E r \in Runs : FleetWrite(r)

\* child.stdout.on('data') of the run: the lines in its pipe are handled
FleetData(r) ==
    /\ launch.on
    /\ launch.pipe[r] # << >>
    /\ launch' = [ launch EXCEPT
                     !.runs[r] = HandleLines(@, launch.pipe[r], "T1", FALSE),
                     !.pipe[r] = << >> ]
    /\ LaunchUnchanged

FleetReads == \E r \in Runs : FleetData(r)

\* clone_and_prepare_repo: rm -rf "$TARGET_DIR" takes with it the log file
\* the path names
FleetClone(r) ==
    /\ launch.on
    /\ launch.driver[r] = "logging"
    /\ launch.written[r] >= 1
    /\ launch' = [ launch EXCEPT
                     !.driver[r] = "cloned",
                     !.files[LogFileOf(launch.name[r])] = NoFile ]
    /\ LaunchUnchanged

FleetClones == \E r \in Runs : FleetClone(r)

\* the driver ends
FleetExit(r) ==
    /\ launch.on
    /\ launch.driver[r] \in { "detached", "logging", "cloned" }
    /\ launch' = [ launch EXCEPT !.driver[r] = "exited" ]
    /\ LaunchUnchanged

FleetExits == \E r \in Runs : FleetExit(r)

\* child.on('close') of a foreground run
FleetClose(r) ==
    /\ launch.on
    /\ launch.driver[r] = "exited"
    /\ launch.runs[r].runMode = "foreground"
    /\ launch.pipe[r] = << >>
    /\ \E code \in ExitCodes :
         launch' = [ launch EXCEPT
                       !.driver[r] = "closed",
                       !.runs[r] = CloseForeground(@, code) ]
    /\ LaunchUnchanged

FleetCloses == \E r \in Runs : FleetClose(r)

\* a tick of the run's poller
FleetPoll(r) ==
    /\ launch.on
    /\ launch.polling[r]
    /\ IF launch.runs[r].status # "running"
       THEN launch' = [ launch EXCEPT !.polling[r] = FALSE ]
       ELSE launch' = [ launch EXCEPT
                          !.runs[r] = FleetPolled(@, ContentAt(@.logFilePath),
                                                  launch.driver[r] = "exited"),
                          !.polling[r] = launch.driver[r] # "exited" ]
    /\ LaunchUnchanged

FleetPolls == \E r \in Runs : FleetPoll(r)

FleetNext ==
    \/ FleetStarted
    \/ FleetLogs
    \/ FleetWrites
    \/ FleetReads
    \/ FleetClones
    \/ FleetExits
    \/ FleetCloses
    \/ FleetPolls

FleetSpec == FleetInit /\ [][FleetNext]_vars

----------------------------------------------------------------------------
(* The commit message the driver makes of the commit agent's answer *)

\* the lines of an answer
MaxAnswer == 2

FallbackMessage == "chore: apply opencode loop changes"

\* the lines the commit agent prints: a message of the form asked for, one
\* in the past tense, capitalised and ended by a period, a preamble, and
\* lines cleanup_text_output removes or trims
AnswerLines ==
    { "fix: handle empty login", "Fixed The Login Bug.", "Here is the commit message:",
      "", "   ", "> build" }

Answers == UNION { [ 1..n -> AnswerLines ] : n \in 0..MaxAnswer }

\* <type>: <description> in the imperative, lowercase, without a final period
WellFormed(line) == line = "fix: handle empty login"

\* head -n 1
head1(lines) == IF lines = << >> THEN "" ELSE lines[1]

\* commit_msg=$(cleanup_text_output "$commit_raw" | head -n 1), and the
\* fallback for an empty message
commit_msg(raw) ==
    LET first == head1(cleanup_text_output(raw))
    IN  IF first = "" THEN FallbackMessage ELSE first

MessageInit ==
    /\ NoSupervisor
    /\ replay = NoReplay
    /\ retry = NoRetry
    /\ pipeline = NoPipeline
    /\ merge = NoMerge
    /\ scheduler = NoScheduler
    /\ journal = NoJournal
    /\ chunks = NoChunks
    /\ branch = NoBranch
    /\ launch = NoLaunch
    /\ history = NoHistory
    /\ handling = NoHandling
    /\ refresh = NoRefresh
    /\ pollers = NoPollers
    /\ stopping = NoStopping
    /\ \E raw \in Answers :
         commitMsg = [ on |-> TRUE, raw |-> raw, pc |-> "agent", commit_msg |-> "",
                     committed |-> "", status |-> NotYet ]

\* the commit phase from the agent's answer to git commit
MessageCommit ==
    /\ commitMsg.on
    /\ commitMsg.pc = "agent"
    /\ \E ok \in BOOLEAN :
         commitMsg' = [ commitMsg EXCEPT
                        !.pc = "done",
                        !.commit_msg = commit_msg(commitMsg.raw),
                        !.committed = IF ok THEN commit_msg(commitMsg.raw) ELSE "",
                        !.status = IF ok THEN 0 ELSE 1 ]
    /\ UNCHANGED << supervisorVars, registry, replay, retry, pipeline, merge, scheduler,
                    journal, chunks, branch, launch, history, handling, refresh, pollers, stopping >>

MessageNext == MessageCommit

MessageSpec == MessageInit /\ [][MessageNext]_vars

----------------------------------------------------------------------------
(* The log pollers of one background run *)

\* the bootstrap lines the launcher's output holds, the ticks of an interval,
\* the lines of the driver's log file
MaxBootstraps == 2
MaxTicks == 3
MaxSize == 2

\* no interval: the null of active.logPoller
NoInterval == 0

\* stopPolling: the interval active.logPoller holds is cleared
stopPolling(p) ==
    IF p.logPoller = NoInterval THEN p
    ELSE [ p EXCEPT !.intervals = @ \ { p.logPoller }, !.logPoller = NoInterval ]

\* poll(): no entry, a run that is not running, or a read of the log file
\* followed by the liveness test and finalizeBackgroundRun
poll(before) ==
    LET p == [ before EXCEPT !.polls = @ + 1, !.found = before.status ]
    IN  IF ~p.registered THEN p
        ELSE IF p.status # "running" THEN stopPolling(p)
        ELSE LET read == [ p EXCEPT !.reads = @ + 1, !.logFileOffset = p.size ]
             IN  IF read.alive THEN read
                 ELSE [ stopPolling(read) EXCEPT !.status = "failed" ]

\* a startBackgroundLogPolling that does not look at active.logPoller
startBackgroundLogPollingAgain(p) ==
    IF ~p.registered \/ p.logFilePath = NoPath THEN p
    ELSE poll([ p EXCEPT !.logPoller = p.next, !.intervals = @ \cup { p.next },
                         !.next = @ + 1 ])

\* startBackgroundLogPolling: the guards, setInterval, and the first poll()
startBackgroundLogPolling(p) ==
    IF ~p.registered \/ p.logPoller # NoInterval \/ p.logFilePath = NoPath THEN p
    ELSE poll([ p EXCEPT !.logPoller = p.next, !.intervals = @ \cup { p.next },
                         !.next = @ + 1 ])

PollerInit ==
    /\ NoSupervisor
    /\ replay = NoReplay
    /\ retry = NoRetry
    /\ pipeline = NoPipeline
    /\ merge = NoMerge
    /\ scheduler = NoScheduler
    /\ journal = NoJournal
    /\ chunks = NoChunks
    /\ branch = NoBranch
    /\ launch = NoLaunch
    /\ history = NoHistory
    /\ handling = NoHandling
    /\ refresh = NoRefresh
    /\ commitMsg = NoMessage
    /\ stopping = NoStopping
    /\ \E size \in 0..MaxSize, living \in BOOLEAN :
         pollers = [ on |-> TRUE, registered |-> FALSE, child |-> "none", status |-> "running",
                     logFilePath |-> NoPath, logFileOffset |-> 0, logPoller |-> NoInterval,
                     intervals |-> { }, next |-> 1, size |-> size, alive |-> living,
                     reads |-> 0, lines |-> 0, ticks |-> 0, polls |-> 0, found |-> "none" ]

PollerUnchanged ==
    UNCHANGED << supervisorVars, registry, replay, retry, pipeline, merge, scheduler,
                 journal, chunks, branch, launch, history, handling, refresh, commitMsg,
                 stopping >>

\* loadPersistedRuns adopts the run of the registry file, whose driver is
\* alive: the entry is made, and the poller started if a log file is known
PollerAdopt ==
    /\ pollers.on
    /\ ~pollers.registered
    /\ pollers.alive
    /\ \E path \in { NoPath, LogPath }, offset \in 0..pollers.size :
         pollers' = startBackgroundLogPolling(
                        [ pollers EXCEPT !.registered = TRUE, !.logFilePath = path,
                                         !.logFileOffset = offset ])
    /\ PollerUnchanged

\* startRun registers the run
PollerStartRun ==
    /\ pollers.on
    /\ ~pollers.registered
    /\ pollers.size = 0
    /\ pollers' = [ pollers EXCEPT !.registered = TRUE, !.child = "launcher" ]
    /\ PollerUnchanged

\* the stdout handler meets a bootstrap line, the first or a repeated one
PollerBootstrap ==
    /\ pollers.on
    /\ pollers.child = "launcher"
    /\ pollers.lines < MaxBootstraps
    /\ pollers' = startBackgroundLogPolling(
                      [ pollers EXCEPT !.logFilePath = LogPath, !.lines = @ + 1 ])
    /\ PollerUnchanged

\* a tick of an interval that has not been cleared
PollerTick ==
    /\ pollers.on
    /\ pollers.ticks < MaxTicks
    /\ \E id \in pollers.intervals :
         pollers' = poll([ pollers EXCEPT !.ticks = @ + 1 ])
    /\ PollerUnchanged

\* the driver writes a line to its log file
PollerWrite ==
    /\ pollers.on
    /\ pollers.alive
    /\ pollers.size < MaxSize
    /\ pollers' = [ pollers EXCEPT !.size = @ + 1 ]
    /\ PollerUnchanged

\* the driver ends
PollerExit ==
    /\ pollers.on
    /\ pollers.alive
    /\ pollers' = [ pollers EXCEPT !.alive = FALSE ]
    /\ PollerUnchanged

\* stopRun on the running run
PollerStop ==
    /\ pollers.on
    /\ pollers.registered
    /\ pollers.status = "running"
    /\ pollers' = stopPolling([ pollers EXCEPT !.status = "stopped" ])
    /\ PollerUnchanged

\* child.on('close') for a launcher that was ended by a signal: the branch
\* of the close handler for a background run and a code other than 0
PollerClose ==
    /\ pollers.on
    /\ pollers.child = "launcher"
    /\ pollers' = [ pollers EXCEPT
                      !.child = "closed",
                      !.status = IF @ = "running" THEN "failed" ELSE @ ]
    /\ PollerUnchanged

PollerNext ==
    \/ PollerAdopt
    \/ PollerStartRun
    \/ PollerBootstrap
    \/ PollerTick
    \/ PollerWrite
    \/ PollerExit
    \/ PollerStop
    \/ PollerClose

PollerSpec == PollerInit /\ [][PollerNext]_vars

----------------------------------------------------------------------------
(* The calls of stopRun on one run id *)

\* the calls of stopRun
MaxStops == 2

\* no entry under the run id
NoSuchRun == "none"

\* the runs a call can meet: no run under the id, a run startRun registered
\* (process: its child has not closed yet), a background run adopted at
\* startup, or a run that only the registry holds, which is never 'running'
\* once loadPersistedRuns has returned
StopWorlds ==
    { [ active |-> FALSE, process |-> FALSE, status |-> NoSuchRun, persisted |-> NoSuchRun,
        pid |-> NoPid, logPoller |-> FALSE ] }
    \cup { [ active |-> TRUE, process |-> st \in { "running", "stopped" }, status |-> st,
             persisted |-> st, pid |-> pid, logPoller |-> poller /\ st = "running" ] :
             st \in RunStatus, pid \in { NoPid, ChildPid, DriverPid }, poller \in BOOLEAN }
    \cup { [ active |-> TRUE, process |-> FALSE, status |-> "running", persisted |-> "running",
             pid |-> DriverPid, logPoller |-> poller ] : poller \in BOOLEAN }
    \cup { [ active |-> FALSE, process |-> FALSE, status |-> NoSuchRun, persisted |-> st,
             pid |-> pid, logPoller |-> FALSE ] :
             st \in TerminalStatus, pid \in { NoPid, ChildPid } }

\* run?.state ?? persisted
targetStatus(w) == IF w.active THEN w.status ELSE w.persisted

\* the two guards of stopRun
Stoppable(w) ==
    /\ w.active \/ w.persisted = "running"
    /\ targetStatus(w) = "running"

\* the signals of an accepted stopRun; group: process.kill(-pid) finds a group
StopRunSignals(w, group) ==
    IF w.pid = NoPid THEN { }
    ELSE IF group
    THEN { Signal(w.pid, TRUE, "SIGTERM"), Signal(w.pid, FALSE, "SIGTERM") }
    ELSE { Signal(w.pid, FALSE, "SIGKILL") }

\* a stopRun without the test of the target's status
stopRunAnyStatus(w, group) ==
    IF ~w.active /\ w.persisted # "running"
    THEN [ w EXCEPT !.returned = Append(@, FALSE) ]
    ELSE [ w EXCEPT
             !.status = IF w.active THEN "stopped" ELSE @,
             !.persisted = "stopped",
             !.broadcasts = @ + 2,
             !.persists = @ + 1,
             !.logPoller = FALSE,
             !.signals = @ \cup StopRunSignals(w, group),
             !.timer = @ \/ (w.pid # NoPid /\ group),
             !.returned = Append(@, TRUE) ]

\* stopRun(runId)
stopRun(w, group) ==
    IF ~Stoppable(w)
    THEN [ w EXCEPT !.returned = Append(@, FALSE) ]
    ELSE [ w EXCEPT
             !.status = IF w.active THEN "stopped" ELSE @,
             !.persisted = "stopped",
             !.broadcasts = @ + 2,
             !.persists = @ + 1,
             !.logPoller = FALSE,
             !.signals = @ \cup StopRunSignals(w, group),
             !.timer = @ \/ (w.pid # NoPid /\ group),
             !.returned = Append(@, TRUE) ]

StopInit ==
    /\ NoSupervisor
    /\ replay = NoReplay
    /\ retry = NoRetry
    /\ pipeline = NoPipeline
    /\ merge = NoMerge
    /\ scheduler = NoScheduler
    /\ journal = NoJournal
    /\ chunks = NoChunks
    /\ branch = NoBranch
    /\ launch = NoLaunch
    /\ history = NoHistory
    /\ handling = NoHandling
    /\ refresh = NoRefresh
    /\ commitMsg = NoMessage
    /\ pollers = NoPollers
    /\ \E w \in StopWorlds :
         stopping = [ on |-> TRUE, active |-> w.active, process |-> w.process,
                      status |-> w.status, persisted |-> w.persisted, pid |-> w.pid,
                      logPoller |-> w.logPoller, broadcasts |-> 0, persists |-> 0,
                      signals |-> { }, timer |-> FALSE, returned |-> << >> ]

StopUnchanged ==
    UNCHANGED << supervisorVars, registry, replay, retry, pipeline, merge, scheduler,
                 journal, chunks, branch, launch, history, handling, refresh, commitMsg,
                 pollers >>

\* the renderer asks for the stop of the run
StopCall ==
    /\ stopping.on
    /\ Len(stopping.returned) < MaxStops
    /\ \E group \in BOOLEAN :
         stopping' = stopRun(stopping, group)
    /\ StopUnchanged

\* the callback of the escalation timer
StopEscalates ==
    /\ stopping.on
    /\ stopping.timer
    /\ stopping' = [ stopping EXCEPT
                       !.timer = FALSE,
                       !.signals = IF targetStatus(stopping) = "stopped"
                                   THEN @ \cup { Signal(stopping.pid, TRUE, "SIGKILL") }
                                   ELSE @ ]
    /\ StopUnchanged

\* child.on('close') of a foreground run
StopClose ==
    /\ stopping.on
    /\ stopping.process
    /\ stopping.status \in { "running", "stopped" }
    /\ \E code \in ExitCodes :
         stopping' = [ stopping EXCEPT
                         !.status = IF @ = "stopped" THEN @
                                    ELSE IF code = 0 THEN "completed" ELSE "failed",
                         !.persisted = IF stopping.status = "stopped" THEN "stopped"
                                       ELSE IF code = 0 THEN "completed" ELSE "failed",
                         !.process = FALSE,
                         !.broadcasts = @ + 2,
                         !.persists = @ + 1 ]
    /\ StopUnchanged

StopNext ==
    \/ StopCall
    \/ StopEscalates
    \/ StopClose

StopSpec == StopInit /\ [][StopNext]_vars

----------------------------------------------------------------------------
(* Claims about the supervised run *)

ActivePhases(phases) == { p \in DOMAIN phases : phases[p] = "active" }

\* C1: in every state of a run created by startRun the phase map has an
\* entry for exactly the 9 fixed phases, and at most one phase is active.
C1_PhaseMapTotalOneActive ==
    /\ DOMAIN run.phases = PhaseSet
    /\ \A p \in PhaseSet : run.phases[p] \in PhaseStatus
    /\ Cardinality(ActivePhases(run.phases)) <= 1

\* C1 witness: after two phase lines the first phase has been demoted and
\* the second is the active one.
C1_Witness ==
    /\ Len(run.logs) = 2
    /\ run.phases["CLONE"] = "completed"
    /\ run.phases["PR"] = "active"

\* C2: once the status of a run is completed, failed or stopped, no step
\* changes it.
C2_TerminalStatusFinal ==
    [][run.status \in TerminalStatus => run'.status = run.status]_vars

\* C3: from the step in which stopRun returns true the status is 'stopped',
\* and it is still 'stopped' when the child's close event has been handled.
C3_StoppedStaysStopped ==
    stopCalled => run.status = "stopped"

\* C4: when the grace window of a stop of a foreground run has expired and
\* the driver is still alive, SIGKILL has been sent to it.
C4_ForcedKillAfterGrace ==
    ( /\ stopCalled
      /\ run.runMode = "foreground"
      /\ Signal(ChildPid, TRUE, "SIGTERM") \in signals
      /\ killTimer = NoPid
      /\ ~shutdown
      /\ ChildPid \in alive )
    => \E sg \in signals : sg.sig = "SIGKILL" /\ sg.to = ChildPid

\* the log file holds a complete '[DONE] Total duration: Ns' line
FileHasDoneLine ==
    \E i \in 1..(Len(file) - 1) :
        /\ ~file[i].nl
        /\ file[i + 1].nl
        /\ toUpperCase(file[i].line.tag) = "DONE"
        /\ IncludesTotalDuration(file[i].line.msg)

\* C5: a poll that finds the driver of a running background run dead while
\* the log file holds the DONE line finalises the run as 'completed'.
C5_DoneLineCompletes ==
    [][ ( /\ pollPc = "check"
          /\ pollPc' = "idle"
          /\ run.status = "running"
          /\ ~isProcessAlive(run.pid)
          /\ FileHasDoneLine )
        => run'.status = "completed" ]_vars

\* the raw lines of the entries of a log, in order
RECURSIVE RawLines(_)
RawLines(logs) ==
    IF logs = << >> THEN << >> ELSE << Head(logs).raw >> \o RawLines(Tail(logs))

\* the non-blank lines of a history of emitted lines, in order
RECURSIVE EmittedLines(_)
EmittedLines(h) ==
    IF h = << >> THEN << >>
    ELSE (IF IsBlank(Head(h).line) THEN << >> ELSE << Head(h).line >>) \o EmittedLines(Tail(h))

IsPrefix(a, b) == Len(a) <= Len(b) /\ SubSeq(b, 1, Len(a)) = a

\* C7: the entries appended to the logs of a run are the non-blank lines
\* the driver emitted, in the order it emitted them.
C7_LogsInEmissionOrder ==
    IsPrefix(RawLines(run.logs), EmittedLines(emitted))

----------------------------------------------------------------------------
(* Claims about the startup load *)

\* the step that completes loadPersistedRuns
LoadCompletes == ~registry.loaded /\ registry'.loaded

\* C6: after the startup load a run stored as 'running' that is a background
\* run whose process is alive is still 'running', is in activeRuns and has
\* a poller; any other run stored as 'running' is 'stopped' and has exactly
\* one more log entry, the synthetic one; a run stored with a terminal
\* status has that status.
C6_OrphanAdoption ==
    [][ LoadCompletes =>
          LET r == registry.run
          IN  /\ ( /\ r.status = "running"
                   /\ registry'.adopted
                   /\ isProcessAlive(r.pid)' )
                 => run'.status = "running" /\ active' /\ logPoller'
              /\ (r.status = "running" /\ ~registry'.adopted)
                 => /\ persisted'.status = "stopped"
                    /\ \E now \in Clock : persisted'.logs = Append(r.logs, RestartEntry(now))
              /\ r.status \in TerminalStatus
                 => persisted'.status = r.status /\ persisted'.logs = r.logs ]_vars

----------------------------------------------------------------------------
(* Claims about the replay of a stream *)

\* an entry without the timestamp parseLine generates for an unstructured line
Timeless(entry) ==
    IF entry.raw.tag = "" THEN [ entry EXCEPT !.timestamp = "" ] ELSE entry

\* what two replays are compared on
Replayed(state) ==
    [ phases        |-> state.phases,
      currentPhase  |-> state.currentPhase,
      prUrl         |-> state.prUrl,
      prMergeStatus |-> state.prMergeStatus,
      logs          |-> [ i \in 1..Len(state.logs) |-> Timeless(state.logs[i]) ] ]

\* C8: two runs with the same initial state that are fed the same lines have
\* the same phase map, currentPhase, prUrl, prMergeStatus and logs, the
\* generated timestamps of unstructured entries left aside.
C8_ReplayAgrees ==
    replay.on => Replayed(replay.first) = Replayed(replay.second)

\* C8 witness: a whole stream has been replayed, it had an unstructured line
\* stamped differently by the two replays, and it announced a pull request.
C8_Witness ==
    /\ replay.on
    /\ replay.fed = MaxReplay
    /\ replay.first.logs # replay.second.logs
    /\ replay.first.prUrl = PrUrl
    /\ replay.first.planText # replay.second.planText

----------------------------------------------------------------------------
(* Claims about the retry policy *)

\* the sleeps of n attempts that all fail with a network error
ExpectedSleeps(delays, n) ==
    [ k \in 1..(IF n > 1 THEN n - 1 ELSE 0) |->
        IF k <= Len(delays) THEN delays[k] ELSE delays[Len(delays)] ]

\* C9: when retry_with_backoff has returned: a command that always fails
\* with a network error was invoked MAX_RETRIES times, with the sleeps of
\* RETRY_DELAYS between the attempts and none after the last, and its status
\* is returned; a command that fails otherwise was invoked once, without a
\* sleep, and its status is returned; a command that succeeds ends the
\* retrying with status 0.
C9_RetryWithBackoff ==
    (retry.on /\ retry.pc = "returned") =>
        /\ retry.cmd \in { "reset", "verbose" } =>
             /\ retry.calls = retry.MAX_RETRIES
             /\ retry.sleeps = ExpectedSleeps(retry.RETRY_DELAYS, retry.MAX_RETRIES)
             /\ retry.status = Invoke(retry.cmd, retry.MAX_RETRIES).status
        /\ retry.cmd = "denied" =>
             /\ retry.calls = 1
             /\ retry.sleeps = << >>
             /\ retry.status = Invoke("denied", 1).status
        /\ retry.cmd = "succeeds" =>
             /\ retry.calls = 1
             /\ retry.sleeps = << >>
             /\ retry.status = 0
        /\ (retry.cmd = "flaky" /\ retry.MAX_RETRIES # 1) =>
             /\ retry.calls = 2
             /\ retry.sleeps = ExpectedSleeps(retry.RETRY_DELAYS, 2)
             /\ retry.status = 0

\* C10: the attempt bound retry_with_backoff uses is 1, 2 or 3, and the
\* command it wraps is invoked at least once and at most three times.
C10_AttemptBound ==
    /\ (retry.on /\ retry.pc # "config") => retry.MAX_RETRIES \in 1..3
    /\ (retry.on /\ retry.pc = "returned") => retry.calls \in 1..3

----------------------------------------------------------------------------
(* Claims about the driver's pipeline *)

\* the tags of the lines of a log
Tags(log) == { log[i].tag : i \in 1..Len(log) }

HasLine(log, tag, msg) == \E i \in 1..Len(log) : log[i] = StructuredLine(tag, msg)

\* the cleaned review is the one line LGTM, in any case
ExactlyLgtm(lines) == Len(lines) = 1 /\ IsLgtm(lines[1])

\* C11: when the pipeline has passed its fix step, the fix phase was
\* skipped if and only if the cleaned review response is exactly LGTM in any
\* case, and for every other response that is not empty the fix agent was
\* invoked.
C11_FixSkippedIffLgtm ==
    (pipeline.on /\ "FIX" \in Tags(pipeline.log)) =>
        /\ HasLine(pipeline.log, "FIX", MsgSkippedFix) <=> ExactlyLgtm(pipeline.review_clean)
        /\ (~ExactlyLgtm(pipeline.review_clean) /\ pipeline.review_clean # << >>)
             => \E i \in 1..Len(pipeline.agents) : pipeline.agents[i] = "fix"

\* the run the supervisor has after it has read the lines of a log
RECURSIVE Observed(_, _)
Observed(state, log) ==
    IF log = << >> THEN state
    ELSE Observed(ParseAndHandle(state, Head(log), "T1", FALSE), Tail(log))

\* C12: when the tree had no changes after staging, the log has the
\* 'Nothing to commit' COMMIT line, no commit agent ran, nothing was
\* committed, pushed or opened as a pull request, the log has no PUSH, PR or
\* DONE line, the driver's exit code is not 0, and a supervisor that has read
\* the log ends the run as 'failed', foreground or background.
C12_NothingToCommit ==
    (pipeline.on /\ pipeline.tree = "clean") =>
        /\ HasLine(pipeline.log, "COMMIT", MsgNothingToCommit)
        /\ pipeline.done \cap { "commit", "branch", "pull request" } = { }
        /\ \A i \in 1..Len(pipeline.agents) : pipeline.agents[i] \notin { "commit", "pr" }
        /\ Tags(pipeline.log) \cap { "PUSH", "PR", "DONE" } = { }
        /\ pipeline.status = 1
        /\ pipeline.pc = "exited" =>
             /\ pipeline.exit # 0
             /\ \A background \in BOOLEAN :
                  LET s == Observed(NewRunState(pipeline.SKIP_PLAN, FALSE, background, TRUE),
                                    pipeline.log)
                  IN  IF background
                      THEN finalizeBackgroundRun(s).status = "failed"
                      ELSE CloseForeground(s, pipeline.exit).status = "failed"

\* C12 witness: the driver has exited after it found nothing to commit.
C12_Witness ==
    /\ pipeline.on
    /\ pipeline.tree = "clean"
    /\ pipeline.pc = "exited"
    /\ pipeline.did_run_fix

\* the place of a phase in PIPELINE_PHASES, 0 for any other tag
PhaseIndex(tag) ==
    IF tag \in PhaseSet THEN CHOOSE i \in 1..Len(PIPELINE_PHASES) : PIPELINE_PHASES[i] = tag
    ELSE 0

\* C13: the phase lines of the log are in the order of PIPELINE_PHASES; once
\* a command of a phase has failed no line of a later phase is logged, what
\* was done stays done, and the driver's exit code is not 0.
C13_OrderAndAbort ==
    pipeline.on =>
        /\ \A i, j \in 1..Len(pipeline.log) :
             (i < j /\ pipeline.log[i].tag \in PhaseSet /\ pipeline.log[j].tag \in PhaseSet)
                 => PhaseIndex(pipeline.log[i].tag) <= PhaseIndex(pipeline.log[j].tag)
        /\ pipeline.failedIn # "none" =>
             /\ \A i \in 1..Len(pipeline.log) :
                  PhaseIndex(pipeline.log[i].tag) <= PhaseIndex(pipeline.failedIn)
             /\ pipeline.workspace
             /\ pipeline.pc = "exited" => pipeline.exit # 0


----------------------------------------------------------------------------
(* Claims about the PR and merge automation *)

TasksOf(op) == { i \in Slots : merge.on /\ merge.tasks[i].op = op }

\* C14: mergeRunPr starts gh pr merge only after its refresh has ended, and
\* when that refresh found the pull request conflicting it returns a
\* failure without starting gh pr merge and without setting 'auto-merging'
C14_MergeRefreshesFirst ==
    \A i \in TasksOf("mergeRunPr") :
        LET t == merge.tasks[i]
        IN  /\ t.spawned => t.refreshed # "none"
            /\ t.refreshed = "CONFLICTING" =>
                 /\ ~t.spawned
                 /\ ~t.setAuto
                 /\ t.pc = "done"
                 /\ t.result = "fail"

C14_Witness ==
    \E i \in TasksOf("mergeRunPr") :
        /\ merge.tasks[i].refreshed = "CONFLICTING"
        /\ merge.tasks[i].pc = "done"

\* the run reached 'completed' with autoMerge set and a PR URL
AutoMergeDue ==
    /\ merge.state.status = "completed"
    /\ merge.state.autoMerge
    /\ merge.state.prUrl # NoUrl

\* C15 as stated: when the run is completed with autoMerge and a PR URL, and
\* the refresh of maybeAutoMergeRun has ended with anything but a conflict,
\* gh pr merge has been started
C15_SkippedOnlyOnConflict ==
    \A i \in TasksOf("maybeAutoMergeRun") :
        LET t == merge.tasks[i]
        IN  (AutoMergeDue /\ t.refreshed \notin { "none", "CONFLICTING" }) => t.spawned

\* C15 amended: maybeAutoMergeRun refreshes whenever the run is completed
\* with autoMerge and a PR URL, and it starts gh pr merge exactly when the
\* refreshed status is 'ready' or 'checking'; on a conflict, on a failed
\* refresh and on a merged pull request it returns without merging
C15_MergedWhenReadyOrChecking ==
    \A i \in TasksOf("maybeAutoMergeRun") :
        LET t == merge.tasks[i]
        IN  /\ AutoMergeDue => t.pc # "idle" /\ (t.pc = "done" => t.refreshed # "none")
            /\ ~AutoMergeDue => ~t.spawned /\ t.refreshed = "none"
            /\ t.refreshed # "none" => (t.spawned <=> t.refreshed \in { "MERGEABLE", "UNKNOWN" })
            /\ t.refreshed \in { "CONFLICTING", "MERGED", "error" } =>
                 t.pc = "done" /\ t.result = "skipped" /\ ~t.setAuto

C15_Witness ==
    \E i \in TasksOf("maybeAutoMergeRun") :
        /\ merge.tasks[i].refreshed = "UNKNOWN"
        /\ merge.tasks[i].spawned
        /\ merge.tasks[i].pc = "done"

\* C16: the directories that exist are those of the resolutions still inside
\* their try block, one each: a resolution that has returned or thrown has
\* removed the directory it made
C16_TempWorkspaceRemoved ==
    merge.on =>
        LET resolving == { i \in Slots : merge.tasks[i].pc = "resolving" }
        IN  /\ merge.fs = { merge.tasks[i].tempRoot : i \in resolving }
            /\ \A i, j \in resolving : i # j => merge.tasks[i].tempRoot # merge.tasks[j].tempRoot
            /\ \A i \in resolving : merge.tasks[i].made

C16_Witness ==
    /\ merge.on
    /\ \E i, j \in Slots :
         /\ i # j
         /\ merge.tasks[i].made /\ merge.tasks[i].pc = "done" /\ merge.tasks[i].phase = "first"
         /\ merge.tasks[j].made /\ merge.tasks[j].pc = "done" /\ merge.tasks[j].spawned


----------------------------------------------------------------------------
(* Claims about the persistence scheduler *)

\* at most one timer of schedulePersist is pending, and persistTimer holds it
OneTimer ==
    scheduler.on =>
        /\ scheduler.timers <= 1
        /\ scheduler.persistTimer <=> scheduler.timers = 1

\* after a flush by the timer the file holds the whole registry, and for
\* every run persistRunState stored last, the snapshot of its latest call
FlushWritesLatest ==
    (scheduler.on /\ scheduler.last = "flush") =>
        \A r \in RunIds :
            /\ scheduler.disk[r] = Held(scheduler, r)
            /\ scheduler.snapshot[r] # NoSnapshot => scheduler.disk[r] = scheduler.snapshot[r]

\* persistRunState writes nothing itself, leaves a timer armed, and arms none
\* while one is pending
NoInlineWrite ==
    (scheduler.on /\ scheduler'.last = "persistRunState") =>
        /\ scheduler'.disk = scheduler.disk
        /\ scheduler'.timers = 1
        /\ scheduler.timers > 0 => scheduler'.timers = scheduler.timers

----------------------------------------------------------------------------
(* Claims about the log list *)

\* C18: the log list of a run never holds more than MAX_LOGS_PER_RUN entries
C18_LogsCapped ==
    journal.on => Len(journal.state.logs) <= MAX_LOGS_PER_RUN

----------------------------------------------------------------------------
(* Claims about skipped phases and the PR fields *)

\* C19: a phase whose status is 'skipped', from the options of the run or
\* from a 'Skipped' line of PLAN or FIX, is 'skipped' after every later step:
\* a log entry, the close or the error of the child, a finalisation
C19_SkippedStaysSkipped ==
    [][\A p \in PhaseSet : run.phases[p] = "skipped" => run'.phases[p] = "skipped"]_vars

\* C19 witness: FIX was skipped by its line and PR by the options, a PR line
\* was handled after that, and the run has ended
C19_Witness ==
    /\ run.phases["FIX"] = "skipped"
    /\ run.phases["PR"] = "skipped"
    /\ run.currentPhase = "PR"
    /\ run.status \in TerminalStatus

\* C20: while prUrl is null the merge status is 'none' and the merge message
\* is unset (the title, the number and the refs of the pull request are
\* written by applyPrView only, which a null prUrl never reaches)
C20_NoPrNoPrFields ==
    run.prUrl = NoUrl => (run.prMergeStatus = "none" /\ run.prMergeMessage = "null")


----------------------------------------------------------------------------
(* Claims about the chunks of a stream *)

\* C21: when the stream has ended, the lines handled are those of the same
\* bytes arriving in one chunk, each once and in order, whatever the chunks
C21_ChunkingInvisible ==
    (chunks.on /\ chunks.closed) => chunks.emitted = InOneChunk(chunks.stream)


----------------------------------------------------------------------------
(* Claims about the branch name *)

\* the tokens of a slug
SlugTokens(slug) == ReadTokens(slug, << >>, << >>)

\* C22: the branch is '<configured prefix>/<slug>'; the slug has at most 3
\* tokens, each of at most 10 characters, none a stop word or purely
\* numeric, or it is 'task-<n>' when no token survives; and the example text
\* gives the slug 'fix-login-bug'
C22_BranchName ==
    (branch.on /\ branch.done) =>
        LET name == branch.BRANCH_NAME
            toks == SlugTokens(name.slug)
        IN  /\ name.prefix = branch.prefix
            /\ \/ name.slug = << "t", "a", "s", "k", "-" >> \o branch.random
               \/ /\ Len(toks) \in 1..3
                  /\ \A i \in 1..Len(toks) :
                       /\ Len(toks[i]) \in 1..10
                       /\ toks[i] \notin StopWords
                       /\ ~IsNumeric(toks[i])
            /\ branch.raw = ExampleText =>
                 name.slug = << "f", "i", "x", "-", "l", "o", "g", "i", "n", "-", "b", "u", "g" >>

----------------------------------------------------------------------------
(* Claims about a background run whose process died *)

\* the step of poll() that found the process of the run dead
DeadFound == pollPc = "check" /\ pollPc' = "idle" /\ ~isProcessAlive(run.pid)

\* C23: when the poller finds the process of a background run dead and the
\* logs hold no '[DONE] ... Total duration:' entry, the run becomes 'failed',
\* no phase stays 'active' (a phase that was active and that the tail of the
\* log did not change is 'failed'), finishedAt is set and polling stops
C23_DeadWithoutDoneFails ==
    [][ (DeadFound /\ ~inferCompletedFromLogs(run')) =>
          /\ run'.status = "failed"
          /\ run'.finishedAt
          /\ \A p \in PhaseSet :
               /\ run'.phases[p] # "active"
               /\ (run.phases[p] = "active" /\ IsBlank(SegmentLine(logLineBuffer)))
                    => run'.phases[p] = "failed"
          /\ ~logPoller' ]_vars

C23_Witness ==
    /\ active
    /\ run.pid = DriverPid
    /\ ~isProcessAlive(run.pid)
    /\ run.status = "failed"
    /\ run.finishedAt
    /\ ~inferCompletedFromLogs(run)
    /\ \E p \in PhaseSet : run.phases[p] = "failed"
    /\ ~logPoller
    /\ pollPc = "idle"
    /\ ~stopCalled

----------------------------------------------------------------------------
(* Claims about the run a pull request operation works on *)

\* C24: for a run of this session and for a run loaded from history alike,
\* when mergeRunPr or resolveAndMergeRunPr has returned ok and the refresh
\* after the merge command saw the pull request MERGED, the prMergeStatus
\* that getRunState and listRuns show is 'merged'
C24_MergedNotOverwritten ==
    (history.on /\ history.task.pc = "done" /\ history.task.result = "ok"
                /\ history.task.seen = "MERGED") =>
        /\ history.heap[getRunById(history)].prMergeStatus = "merged"
        /\ history.heap[history.persistedRuns].prMergeStatus = "merged"

----------------------------------------------------------------------------
(* Claims about the signals of a stop *)

\* the step in which stopRun returns true
Stops == ~stopCalled /\ stopCalled'

\* C25: whenever stopRun returns true for a run with a recorded process id
\* whose process lives, a signal goes to that process id or to its group;
\* this includes the background run, whose recorded pid is the detached
\* driver, and the stop whose signal to the group fails
C25_StopSignalsRecordedPid ==
    [][ (Stops /\ isProcessAlive(TargetState.pid)) =>
          \E sg \in signals' : sg.to = TargetState.pid ]_vars

----------------------------------------------------------------------------
(* Claims about the lines of the log file *)

\* C26: every complete line the driver wrote to its log file before it
\* exited is handled by the supervisor, for every interleaving of driver
\* writes, driver exit and poll ticks: once the driver is dead and the
\* polling of a run that was not stopped has ended, no line end of the file
\* lies beyond the offset the poller has read up to
C26_EveryLineHandled ==
    ( /\ active
      /\ run.runMode = "background"
      /\ run.logFilePath # NoPath
      /\ ~isProcessAlive(run.pid)
      /\ ~logPoller
      /\ pollPc = "idle"
      /\ ~stopCalled
      /\ ~shutdown )
    => \A i \in 1..Len(file) : file[i].nl => i <= run.logFileOffset

----------------------------------------------------------------------------
(* Claims about background mode *)

\* the launcher has gone to the background
Launched == launch.on /\ launch.procs[Detached].pc # "none"

\* C27: in background mode the launcher prints exactly one bootstrap line
\* with the log file and the process id and exits 0 without running a phase,
\* and the re-executed driver gets the launcher's prompt, branch name and
\* options and passes the validation of its arguments: it does not end
\* before its INIT lines unless a check of the environment fails
C27_BackgroundLaunch ==
    Launched =>
        LET front  == launch.procs[Launcher]
            driver == launch.procs[Detached]
        IN  /\ front.pc = "exited" /\ front.code = 0
            /\ front.stdout = << BootstrapLine(front.LOG_FILE, Detached) >>
            /\ \A i \in 1..Len(launch.files) : launch.files[i].by # Launcher
            /\ driver.pc \in { "named", "pipeline" } =>
                 /\ driver.USER_PROMPT = front.USER_PROMPT
                 /\ driver.BRANCH_NAME = front.BRANCH_NAME
                 /\ driver.LOG_OPENCODE_DETAIL = front.LOG_OPENCODE_DETAIL
                 /\ driver.LOG_FILE = front.LOG_FILE
            /\ driver.pc = "exited" =>
                 \/ driver.stdout = << ErrorLine("Error: preflight") >>
                 \/ \E i \in 1..Len(launch.files) : launch.files[i].by = Detached

----------------------------------------------------------------------------
(* Claims about the phase an entry ends *)

\* the phase of the entry handled last
Ended == toUpperCase(handling.entry.phase)

\* C28: for each of the 9 phases P that is not skipped, and for every phase
\* map, after an entry tagged P whose message begins 'Completed in <N>s' has
\* been handled, phases[P] is 'completed'
C28_CompletedInCompletes ==
    ( /\ handling.on
      /\ handling.count > 0
      /\ Ended \in PhaseSet
      /\ MatchesCompleted(handling.entry.message)
      /\ handling.state.phases[Ended] # "skipped" )
    => handling.state.phases[Ended] = "completed"

\* the callback of the escalation timer runs for a run that is still 'stopped'
Escalates == killTimer # NoPid /\ killTimer' = NoPid /\ TargetState.status = "stopped"

\* C29: when stopRun escalates after the grace window, SIGKILL is sent to
\* the process group (-pid) and to the bare process id (pid), both
C29_EscalationKillsBoth ==
    [][ (Escalates /\ isProcessAlive(killTimer)) =>
          { Signal(killTimer, TRUE, "SIGKILL"), Signal(killTimer, FALSE, "SIGKILL") }
              \subseteq signals' ]_vars

----------------------------------------------------------------------------
(* Claims about the refresh of the pull request status *)

\* a refresh that asked the hosting platform has returned
Refreshed == refresh.on /\ refresh.pc = "done" /\ refresh.state.prUrl # Absent

\* the step in which a refresh whose query failed returns
QueryFails == refresh.pc = "awaiting" /\ refresh'.pc = "done" /\ ~refresh'.result.ok

\* C30: refreshRunPrStatus gives the run one status: 'merged' when the
\* answer's state is MERGED whatever its mergeable flag, else 'conflict' for
\* CONFLICTING, 'ready' for MERGEABLE and 'checking' for anything else; when
\* the query fails the status is 'failed' with an error message, the result
\* is not ok, and the url, title, number and refs of the run are unchanged
C30_RefreshMapsTheAnswer ==
    /\ [](Refreshed =>
            IF refresh.result.ok
            THEN /\ refresh.view.state = "MERGED" => refresh.state.prMergeStatus = "merged"
                 /\ (refresh.view.state # "MERGED" /\ refresh.view.mergeable = "CONFLICTING")
                      => refresh.state.prMergeStatus = "conflict"
                 /\ (refresh.view.state # "MERGED" /\ refresh.view.mergeable = "MERGEABLE")
                      => refresh.state.prMergeStatus = "ready"
                 /\ (refresh.view.state # "MERGED"
                       /\ refresh.view.mergeable \notin { "CONFLICTING", "MERGEABLE" })
                      => refresh.state.prMergeStatus = "checking"
            ELSE /\ refresh.state.prMergeStatus = "failed"
                 /\ refresh.result.error \in RefreshErrors
                 /\ refresh.state.prMergeMessage = FailedToRefresh(refresh.result.error))
    /\ [][ QueryFails =>
             /\ refresh'.state.prUrl = refresh.state.prUrl
             /\ refresh'.state.prTitle = refresh.state.prTitle
             /\ refresh'.state.prNumber = refresh.state.prNumber
             /\ refresh'.state.prHeadRef = refresh.state.prHeadRef
             /\ refresh'.state.prBaseRef = refresh.state.prBaseRef ]_vars

C30_Witness ==
    /\ Refreshed
    /\ refresh.result.ok
    /\ refresh.view.state = "MERGED"
    /\ refresh.view.mergeable = "CONFLICTING"
    /\ refresh.state.prMergeStatus = "merged"
    /\ refresh.state.prTitle = "Old title"

----------------------------------------------------------------------------
(* Claims about resolve-and-merge *)

\* the calls of resolveAndMergeRunPr
Resolutions == { merge.tasks[i] : i \in { j \in Slots : merge.tasks[j].op = "resolveAndMergeRunPr" } }

----------------------------------------------------------------------------
(* Claims about the frame of the requests on the pull request *)

\* a step of refreshRunPrStatus, mergeRunPr, resolveAndMergeRunPr or the
\* automatic merge: no line and no close of the child is handled in it
PrStep == merge'.events = merge.events

\* C32: refreshRunPrStatus, mergeRunPr, resolveAndMergeRunPr and the automatic
\* merge leave the run's status, current phase, phase map and logs as they
\* are, at every step they take, also between the lines of a running run
C32_PrOperationsKeepTheRun ==
    [][ PrStep => Framed(merge'.state) = Framed(merge.state) ]_vars

\* a line of the running run was handled while a request was in flight, the
\* request asked for the merge and has returned, and the run is still running
\* with the line in its logs
C32_Witness ==
    /\ merge.on
    /\ merge.during
    /\ merge.state.status = "running"
    /\ Len(merge.state.logs) >= 1
    /\ \E i \in Slots : merge.tasks[i].pc = "done" /\ merge.tasks[i].spawned

----------------------------------------------------------------------------
(* Claims about runs side by side *)

\* C33: an event of one run changes only that run's record: the logs of a
\* run hold no more entries than its own driver has written, whatever the
\* other run's driver writes and however the events of the two interleave
C33_OnlyOwnEntries ==
    launch.on => \A r \in Runs : Len(launch.runs[r].logs) <= launch.written[r]

----------------------------------------------------------------------------
(* Claims about the phases of an ended run *)

\* C34: a run whose status is 'completed' or 'failed' has no phase that is
\* still 'active'
C34_EndedRunHasNoActivePhase ==
    run.status \in { "completed", "failed" } =>
        \A p \in DOMAIN run.phases : run.phases[p] # "active"

\* C35: once the status of a run is terminal, no step changes its phase map,
\* its current phase or its logs
C35_EndedRunIsFrozen ==
    [][ run.status \in TerminalStatus =>
            /\ run'.phases = run.phases
            /\ run'.currentPhase = run.currentPhase
            /\ run'.logs = run.logs ]_vars

----------------------------------------------------------------------------
(* Claims about the driver's tests before it touches the workspace *)

\* the process ended on a missing tool, a missing remote or a missing prompt
FailedFast(proc) ==
    /\ proc.pc = "exited"
    /\ proc.code = 1
    /\ proc.stdout # << >>
    /\ proc.stdout[Len(proc.stdout)].text \in
         { "Error: git is not installed.",
           "Error: No remote origin configured for this repository.",
           "Error: prompt is required unless using --init or --dry-run" }

\* C36: a driver that ends on a missing tool, a missing remote or a missing
\* prompt has made no workspace directory, has written no log file, has not
\* cloned, and, being the launcher, has started no background driver
C36_FailsBeforeTheWorkspace ==
    launch.on =>
        \A p \in { Launcher, Detached } :
            FailedFast(launch.procs[p]) =>
                /\ p \notin launch.made
                /\ \A i \in 1..Len(launch.files) : launch.files[i].by # p
                /\ p = Launcher => launch.procs[Detached] = NoProcess

\* the launcher ended on each kind of error somewhere; here on a missing
\* prompt, in background mode, where the next step would have made the
\* directory and started the background driver
C36_Witness ==
    /\ launch.on
    /\ FailedFast(launch.procs[Launcher])
    /\ launch.procs[Launcher].RUN_MODE = "bg"
    /\ launch.procs[Launcher].USER_PROMPT = ""
    /\ launch.procs[Launcher].stdout[1].text = "Error: prompt is required unless using --init or --dry-run"

----------------------------------------------------------------------------
(* Claims about the commit message *)

\* C37: the message the driver commits with is the agent's only when that is
\* of the form asked for; otherwise it is the fixed fallback
C37_MessageValidated ==
    commitMsg.on /\ commitMsg.pc = "done" =>
        \/ commitMsg.commit_msg = FallbackMessage
        \/ WellFormed(commitMsg.commit_msg)

----------------------------------------------------------------------------
(* Claims about the log poller *)

\* the fields of the run a poller could change
Polled(p) == [ status |-> p.status, logFileOffset |-> p.logFileOffset, reads |-> p.reads ]

\* C38: a run has at most one interval that has not been cleared, and the
\* run's entry holds it; a tick that finds the run not running clears the
\* interval, reads nothing and leaves the run as it is; so does the poll
\* that startBackgroundLogPolling makes itself
C38_OnePollerWhichStopsItself ==
    /\ [](pollers.on =>
            /\ Cardinality(pollers.intervals) <= 1
            /\ pollers.intervals = IF pollers.logPoller = NoInterval THEN { }
                                   ELSE { pollers.logPoller })
    /\ [][ pollers'.polls # pollers.polls /\ pollers.status # "running" =>
             /\ pollers'.intervals = { }
             /\ Polled(pollers') = Polled(pollers) ]_vars

\* a second bootstrap line was handled while the poller of the first was
\* running and started none, and later a tick found the run failed and
\* cleared the interval
C38_Witness ==
    /\ pollers.on
    /\ pollers.lines = 2
    /\ pollers.next = 2
    /\ pollers.ticks >= 1
    /\ pollers.found = "failed"
    /\ pollers.intervals = { }

----------------------------------------------------------------------------
(* Claims about a refused stop *)

\* what a call of stopRun can change, but for the value it returns
Stopped(w) == [ w EXCEPT !.returned = << >> ]

\* C39: stopRun on an id without a run, or on a run that is not 'running',
\* returns false and sends no signal, no broadcast, schedules no persist and
\* changes nothing; so does a second stopRun on the run
C39_RefusedStopChangesNothing ==
    [][ /\ Len(stopping'.returned) > Len(stopping.returned)
        /\ \/ targetStatus(stopping) # "running"
           \/ stopping.returned # << >> /\ stopping.returned[Len(stopping.returned)]
        => /\ stopping'.returned = Append(stopping.returned, FALSE)
           /\ Stopped(stopping') = Stopped(stopping) ]_vars

\* stopRun was called twice on a run that was running: it returned true, then false
C39_Witness ==
    /\ stopping.on
    /\ stopping.returned = << TRUE, FALSE >>
    /\ stopping.signals # { }

----------------------------------------------------------------------------
(* Claims about the shutdown *)

\* C40: after cleanupAllRuns no run is active, no poller is left and the
\* registry holds no run that is 'running'; a run whose status was terminal
\* before cleanupAllRuns has the same status after it
C40_CleanupLeavesNothingRunning ==
    /\ [](shutdown => ~active /\ ~logPoller /\ persisted.status # "running")
    /\ [][ shutdown' /\ ~shutdown /\ persisted.status \in TerminalStatus
             => persisted'.status = persisted.status ]_vars

============================================================================
